---- MODULE Spec2Model ----
(***************************************************************************)
(* A model of the price tracker's core: the circuit breaker around         *)
(* outbound requests (UniversalAPI.fetchWithTimeout), the price fetch      *)
(* cycle (UniversalAPI.fetchPrice / fetchAllPrices), the alert rules       *)
(* (AlertSystem), the paper-trading ledger (TradingPlatform.executeTrade)  *)
(* and the dashboard's price snapshot (UniversalTracker).                  *)
(*                                                                         *)
(* Each component has its own variables and its own specification          *)
(* (SpecBreaker, SpecAlerts, SpecTrade, SpecFetch, SpecDash); Spec is      *)
(* their interleaving.                                                     *)
(***************************************************************************)
EXTENDS Integers, Sequences, FiniteSets, TLC

VARIABLES
    \* ---- UniversalAPI: circuit breaker and requests in flight
    circuitBreaker,   \* [failures, state, lastFailure]
    now,              \* Date.now(), in ms
    inflight,         \* request slot -> "none" or the kind of request awaiting its response
    startedAt,        \* request slot -> startTime of the request in it (NoTime when none)
    probe,            \* the slot of the request that moved the breaker to HALF_OPEN, or 0
    issued,           \* number of calls of fetch() (network requests issued)
    rejected,         \* number of calls rejected with 'Circuit breaker is OPEN'
    consecFailures,   \* failed calls since the last 2xx response (observer)
    lastOutcome,      \* outcome of the request that completed last (observer)
    failedKinds,      \* kinds of the calls that failed since the last 2xx response (observer)
    \* ---- AlertSystem
    alerts,             \* this.alerts: the rule list, in insertion order
    alertHistory,       \* this.alertHistory: ids of the triggered alerts, in order
    storedAlerts,       \* localStorage 'priceAlerts'
    storedAlertHistory, \* localStorage 'alertHistory'
    nextAlertId,        \* ids handed out so far + 1 (Date.now() + Math.random())
    passes,             \* number of checkAlerts passes made
    fires,              \* alert id -> number of times it triggered (observer)
    lastPass,           \* the last operation, when a checkAlerts pass: the rules whose
                        \* condition held and the rules it returned (observer)
    \* ---- TradingPlatform
    portfolio,          \* this.portfolio: [cash, holdings, totalValue, totalPnL]
    orders,             \* this.orders, newest first
    storedPortfolio,    \* localStorage 'tradingPortfolio': <<>> or <<the portfolio>>
    storedOrders,       \* localStorage 'tradingOrders': <<>> or <<the order list>>
    currentAction,      \* this.currentAction
    currentAsset,       \* this.currentAsset
    prices,             \* this.prices
    tradeAmount,        \* the text of the amount field
    notification,       \* the text of the notification element
    tradeCalls,         \* number of executeTrade calls, modulo 2 (observer)
    \* ---- UniversalAPI: prices
    userSelectedAssets, \* this.userSelectedAssets
    storedSelection,    \* localStorage 'userSelectedAssets'
    lastPrices,         \* this.lastPrices
    storedLastPrices,   \* localStorage 'lastAssetPrices': <<>> or <<the prices>>
    fetchPc,            \* api.fetchAllPrices: "idle" or "fetching"
    cycleAssets,        \* the array the running (or last) cycle iterates over
    cycleIndex,         \* position of the cycle in cycleAssets
    cycleSlot,          \* slot of the cycle's request in flight, or 0
    cyclePrices,        \* the prices object the cycle is filling
    returned,           \* what the last completed cycle returned
    lastFetch,          \* the last fetchPrice that settled: asset, how, quote (observer)
    \* ---- UniversalTracker: the price snapshot
    allPrices,          \* this.allPrices, when it is an object of its own
    allPricesIsLastPrices, \* this.allPrices is the very object api.lastPrices
    \* ---- UniversalTracker and DataStorage: the price history
    priceHistory,       \* this.priceHistory, newest first
    trackerAsset,       \* the tracker's this.currentAsset
    currentPrice,       \* this.currentPrice
    previousPrice,      \* this.previousPrice
    historyStore,       \* localStorage priceHistory_<asset>: <<>> or <<blob>>
    historyClock,       \* the number of points appended so far (the clock of the timestamps)
    appendedLog,        \* per asset, the points saveToHistory appended, newest first (observer)
    \* ---- the export document
    exportedFile,       \* the downloaded backup: <<>> or <<document>>
    exportedState,      \* what was in memory when it was exported (observer)
    restores,            \* the number of times the backup was imported (observer)
    importNotice,       \* the notification importData showed last, or "none"
    malformedImports,   \* the number of malformed files handed to importData (observer)
    \* ---- Analytics
    rsiPrices,          \* the prices handed to calculateRSI last, newest first
    rsiPeriod,          \* the period handed to it
    rsiResult,          \* what it returned
    sentimentPrices,    \* the prices of the history handed to getMarketSentiment last
    sentimentResult,    \* the sentiment and rsi it returned
    \* ---- localStorage as a page load finds it
    storedText,         \* key -> "absent", "saved" (parses) or "corrupt" (does not parse)
    page,               \* "closed", "dashboard" or "trading"
    loaded,             \* key -> "notLoaded", "default" or "saved": what the page holds
    startUpFailed,      \* the constructor of the page's object threw
    \* ---- UniversalTracker: the polling timer
    documentHidden,     \* document.hidden
    isVisible,          \* this.isVisible
    startUp,            \* "pending" until the 100 ms timeout of init() has run, then "done"
    refreshInterval,    \* this.refreshInterval: 0 for null, else the id setInterval returned
    activeTimers,       \* the ids of the polling intervals that are set and not cleared
    timersSet,          \* the number of setInterval calls so far (the source of the ids)
    fetchesStarted,     \* the number of fetchAllPrices calls so far (observer)
    \* ---- UniversalAPI: the request queue
    requestQueue,       \* this.requestQueue: the ids of the entries waiting
    isProcessingQueue,  \* this.isProcessingQueue
    submitted,          \* the requests handed to queueRequest, in order: what each would return (observer)
    settlement,         \* per submitted request, how its promise settled, or "pending" (observer)
    called,             \* the ids of the requests whose requestFn was called, in order (observer)
    \* ---- UniversalTracker: fetch cycles that overlap
    cycles,             \* the calls of fetchAllPrices in the order they started: who started
                        \* each, and whether it still awaits api.fetchAllPrices()
    leftPrices,         \* this.allPrices: the prices and the cycle that assigned them (0: none)
    completions         \* the cycles in the order they completed (observer)

cbVars == <<circuitBreaker, now, inflight, startedAt, probe, issued, rejected, consecFailures, lastOutcome,
           failedKinds>>

alertVars == <<alerts, alertHistory, storedAlerts, storedAlertHistory, nextAlertId,
               passes, fires, lastPass>>

tradeVars == <<portfolio, orders, storedPortfolio, storedOrders, currentAction, currentAsset,
               prices, tradeAmount, notification, tradeCalls>>

fetchVars == <<userSelectedAssets, storedSelection, lastPrices, storedLastPrices, fetchPc,
               cycleAssets, cycleIndex, cycleSlot, cyclePrices, returned, lastFetch>>

dashVars == <<allPrices, allPricesIsLastPrices>>

histVars == <<priceHistory, trackerAsset, currentPrice, previousPrice, historyStore,
              historyClock, appendedLog>>

exportVars == <<exportedFile, exportedState, restores, importNotice, malformedImports>>

analyticsVars == <<rsiPrices, rsiPeriod, rsiResult, sentimentPrices, sentimentResult>>

loadVars == <<storedText, page, loaded, startUpFailed>>

timerVars == <<documentHidden, isVisible, startUp, refreshInterval, activeTimers, timersSet,
               fetchesStarted>>

queueVars == <<requestQueue, isProcessingQueue, submitted, settlement, called>>

overlapVars == <<cycles, leftPrices, completions>>

pageVars == <<timerVars, queueVars, overlapVars>>

vars == <<cbVars, alertVars, tradeVars, fetchVars, dashVars, histVars, exportVars,
          analyticsVars, loadVars, pageVars>>

notPage == <<cbVars, alertVars, tradeVars, fetchVars, dashVars, histVars, exportVars,
             analyticsVars, loadVars>>

\* What the actions of one component leave alone.
notBreaker == <<alertVars, tradeVars, fetchVars, dashVars, histVars, exportVars,
          analyticsVars, loadVars, pageVars>>
notAlerts == <<cbVars, tradeVars, fetchVars, dashVars, histVars, exportVars,
          analyticsVars, loadVars, pageVars>>
notTrade == <<cbVars, alertVars, fetchVars, dashVars, histVars, exportVars,
          analyticsVars, loadVars, pageVars>>
\* the actions of UniversalAPI say nothing of the dashboard's snapshot: the
\* caller of the cycle does
notFetch == <<alertVars, tradeVars, histVars, exportVars,
          analyticsVars, loadVars, pageVars>>

----------------------------------------------------------------------------
(* Circuit breaker: UniversalAPI.fetchWithTimeout                          *)

threshold == 5
timeout == 30000
\* fetchWithTimeout's default timeout parameter: controller.abort() after 8 s.
requestTimeout == 8000

\* Model bounds.
Tick == 10000
MaxTime == 50000
MaxSlots == 2
MaxCalls == 7

NoTime == -1

Slots == 1..MaxSlots
Kinds == {"quote", "news"}

\* What the awaited fetch() / response.json() can do.
\*   ok            2xx response, body parsed
\*   ok_bad_body   2xx response, response.json() rejects
\*   http_error    non-2xx response
\*   network_error fetch() rejects
\*   timeout       controller.abort() fired, fetch() rejects with AbortError
Outcomes == {"ok", "ok_bad_body", "http_error", "network_error", "timeout"}
ListedFailures == {"http_error", "network_error", "timeout"}

initialCircuitBreaker == [failures |-> 0, state |-> "CLOSED", lastFailure |-> NoTime]

\* Mutant: a success closes the breaker and keeps the failure count.
resetKeepsFailures(cb) == [cb EXCEPT !.state = "CLOSED"]

resetCircuitBreaker(cb) == [cb EXCEPT !.failures = 0, !.state = "CLOSED"]

\* Mutant: the breaker opens one failure late (> instead of >=).
recordFailureOpensLate(cb, t) ==
    LET n == cb.failures + 1 IN
    [failures |-> n,
     lastFailure |-> t,
     state |-> IF n > threshold THEN "OPEN" ELSE cb.state]

recordCircuitBreakerFailure(cb, t) ==
    LET n == cb.failures + 1 IN
    [failures |-> n,
     lastFailure |-> t,
     state |-> IF n >= threshold THEN "OPEN" ELSE cb.state]

\* The guard at the head of fetchWithTimeout: throw without a request.
\* Date.now() - undefined is NaN, and NaN < timeout is false.
breakerRejects(cb, t) ==
    /\ cb.state = "OPEN"
    /\ cb.lastFailure # NoTime
    /\ t - cb.lastFailure < timeout

FreeSlots == {s \in Slots : inflight[s] = "none"}
FirstFree == CHOOSE s \in FreeSlots : \A r \in FreeSlots : s <= r

\* The breaker after the response of a request, by outcome.
breakerAfter(cb, o, t) ==
    CASE o = "ok" -> resetCircuitBreaker(cb)
      [] o = "ok_bad_body" -> recordCircuitBreakerFailure(resetCircuitBreaker(cb), t)
      [] OTHER -> recordCircuitBreakerFailure(cb, t)

\* Mutant: a rejected call counts as a failure of its own and restarts the
\* cool-down.
fetchWithTimeoutRejectionCounts(kind) ==
    /\ issued + rejected < MaxCalls
    /\ IF breakerRejects(circuitBreaker, now)
       THEN /\ rejected' = rejected + 1
            /\ circuitBreaker' = recordCircuitBreakerFailure(circuitBreaker, now)
            /\ UNCHANGED <<inflight, startedAt, probe, issued>>
       ELSE /\ FreeSlots # {}
            /\ inflight' = [inflight EXCEPT ![FirstFree] = kind]
            /\ startedAt' = [startedAt EXCEPT ![FirstFree] = now]
            /\ issued' = issued + 1
            /\ IF circuitBreaker.state = "OPEN"
               THEN /\ circuitBreaker' = [circuitBreaker EXCEPT !.state = "HALF_OPEN"]
                    /\ probe' = FirstFree
               ELSE UNCHANGED <<circuitBreaker, probe>>
            /\ UNCHANGED rejected
    /\ UNCHANGED <<now, consecFailures, lastOutcome, failedKinds>>

\* fetchWithTimeout up to its await: the breaker check, then fetch().
fetchWithTimeout(kind) ==
    /\ issued + rejected < MaxCalls
    /\ IF breakerRejects(circuitBreaker, now)
       THEN /\ rejected' = rejected + 1
            /\ UNCHANGED <<circuitBreaker, inflight, startedAt, probe, issued>>
       ELSE /\ FreeSlots # {}
            /\ inflight' = [inflight EXCEPT ![FirstFree] = kind]
            /\ startedAt' = [startedAt EXCEPT ![FirstFree] = now]
            /\ issued' = issued + 1
            /\ IF circuitBreaker.state = "OPEN"
               THEN /\ circuitBreaker' = [circuitBreaker EXCEPT !.state = "HALF_OPEN"]
                    /\ probe' = FirstFree
               ELSE UNCHANGED <<circuitBreaker, probe>>
            /\ UNCHANGED rejected
    /\ UNCHANGED <<now, consecFailures, lastOutcome, failedKinds>>

\* Mutant: the news feed has a breaker of its own, the outcome of a news
\* request leaves this one alone.
fetchResponseQuotesOnly(s, o) ==
    /\ inflight[s] # "none"
    /\ (o = "timeout") <=> (now - startedAt[s] >= requestTimeout)
    /\ inflight' = [inflight EXCEPT ![s] = "none"]
    /\ startedAt' = [startedAt EXCEPT ![s] = NoTime]
    /\ circuitBreaker' = IF inflight[s] = "news" THEN circuitBreaker
                          ELSE breakerAfter(circuitBreaker, o, now)
    /\ probe' = IF probe = s THEN 0 ELSE probe
    /\ consecFailures' = IF o \in ListedFailures THEN consecFailures + 1 ELSE 0
    /\ lastOutcome' = [outcome |-> o, wasProbe |-> (probe = s)]
    /\ failedKinds' = IF o \in ListedFailures THEN failedKinds \cup {inflight[s]} ELSE {}
    /\ UNCHANGED <<now, issued, rejected>>

\* fetchWithTimeout after its await: the response of the request in slot s.
\* The abort timer decides between the outcomes: once requestTimeout has
\* passed the fetch() is aborted, before that it settles on its own.
fetchResponse(s, o) ==
    /\ inflight[s] # "none"
    /\ (o = "timeout") <=> (now - startedAt[s] >= requestTimeout)
    /\ inflight' = [inflight EXCEPT ![s] = "none"]
    /\ startedAt' = [startedAt EXCEPT ![s] = NoTime]
    /\ circuitBreaker' = breakerAfter(circuitBreaker, o, now)
    /\ probe' = IF probe = s THEN 0 ELSE probe
    /\ consecFailures' = IF o \in ListedFailures THEN consecFailures + 1 ELSE 0
    /\ lastOutcome' = [outcome |-> o, wasProbe |-> (probe = s)]
    /\ failedKinds' = IF o \in ListedFailures THEN failedKinds \cup {inflight[s]} ELSE {}
    /\ UNCHANGED <<now, issued, rejected>>

\* Calls made outside a price cycle (a single quote, the news feed) and
\* their responses.
CallQuote == fetchWithTimeout("quote") /\ UNCHANGED notBreaker
CallNews == fetchWithTimeout("news") /\ UNCHANGED notBreaker
Respond ==
    \E s \in Slots \ {cycleSlot}, o \in Outcomes : fetchResponse(s, o) /\ UNCHANGED notBreaker

TimePasses ==
    /\ now + Tick <= MaxTime
    /\ now' = now + Tick
    /\ UNCHANGED <<circuitBreaker, inflight, startedAt, probe, issued, rejected,
                   consecFailures, lastOutcome, failedKinds>>
    /\ UNCHANGED notBreaker

BreakerStart ==
    /\ circuitBreaker = initialCircuitBreaker
    /\ now = 0
    /\ inflight = [s \in Slots |-> "none"]
    /\ startedAt = [s \in Slots |-> NoTime]
    /\ probe = 0
    /\ issued = 0
    /\ rejected = 0
    /\ consecFailures = 0
    /\ lastOutcome = [outcome |-> "none", wasProbe |-> FALSE]
    /\ failedKinds = {}

NextBreaker == CallQuote \/ CallNews \/ Respond \/ TimePasses

----------------------------------------------------------------------------
(* JavaScript values                                                       *)

\* JavaScript numbers as the program meets them: a finite value, +Infinity,
\* -Infinity or NaN; Null is what JSON.stringify leaves of a non-finite
\* number.
Num(v) == [k |-> "num", v |-> v]
Infinity == [k |-> "inf", v |-> 0]
NegInfinity == [k |-> "ninf", v |-> 0]
NaN == [k |-> "nan", v |-> 0]
Null == [k |-> "null", v |-> 0]
Undefined == [k |-> "undef", v |-> 0]
Text == [k |-> "str", v |-> 0]      \* a non-numeric, non-empty string

\* null is 0 wherever it is used as a number, undefined and text are NaN
ToNumber(x) ==
    CASE x.k = "null" -> Num(0)
      [] x.k \in {"undef", "str"} -> NaN
      [] OTHER -> x
IsFinite(x) == x.k = "num"
Sign(x) ==
    CASE x.k = "num" -> (IF x.v > 0 THEN 1 ELSE IF x.v < 0 THEN -1 ELSE 0)
      [] x.k = "inf" -> 1
      [] x.k = "ninf" -> -1
      [] OTHER -> 0
Neg(x) ==
    CASE x.k = "num" -> Num(-x.v)
      [] x.k = "inf" -> NegInfinity
      [] x.k = "ninf" -> Infinity
      [] OTHER -> x
Add(x, y) ==
    LET a == ToNumber(x)
        b == ToNumber(y)
    IN IF a.k = "nan" \/ b.k = "nan" THEN NaN
       ELSE IF a.k = "num" /\ b.k = "num" THEN Num(a.v + b.v)
       ELSE IF a.k = "num" THEN b
       ELSE IF b.k = "num" THEN a
       ELSE IF a.k = b.k THEN a ELSE NaN
Sub(x, y) == Add(x, Neg(ToNumber(y)))
Mul(x, y) ==
    LET a == ToNumber(x)
        b == ToNumber(y)
    IN IF a.k = "nan" \/ b.k = "nan" THEN NaN
       ELSE IF a.k = "num" /\ b.k = "num" THEN Num(a.v * b.v)
       ELSE IF Sign(a) * Sign(b) = 0 THEN NaN
       ELSE IF Sign(a) * Sign(b) > 0 THEN Infinity ELSE NegInfinity
\* x < y
Less(x, y) ==
    LET a == ToNumber(x)
        b == ToNumber(y)
    IN /\ a.k # "nan" /\ b.k # "nan"
       /\ \/ a.k = "num" /\ b.k = "num" /\ a.v < b.v
          \/ a.k = "ninf" /\ b.k # "ninf"
          \/ b.k = "inf" /\ a.k # "inf"
\* x <= y
LessEq(x, y) == ToNumber(x).k # "nan" /\ ToNumber(y).k # "nan" /\ ~Less(y, x)
\* x used as a condition (!x is its negation)
Truthy(x) == x.k \notin {"nan", "null", "undef"} /\ ~(x.k = "num" /\ x.v = 0)
\* x || y
Or(x, y) == IF Truthy(x) THEN x ELSE y
\* JSON.parse(JSON.stringify(x)) of a number
JsonNumber(x) == IF x.k = "num" THEN x ELSE Null

\* JSON.parse(JSON.stringify(o)).x: a property that is undefined is left out
JsonProperty(x) == IF x.k = "undef" THEN Undefined ELSE JsonNumber(x)
\* a / b where a or b is not finite, or b is 0
nonFiniteQuotient(a, b) ==
    IF a.k = "nan" \/ b.k = "nan" THEN NaN
    ELSE IF b.k = "num"
         THEN (IF Sign(a) = 0 THEN NaN
               ELSE IF Sign(a) * (IF b.v < 0 THEN -1 ELSE 1) > 0 THEN Infinity
               ELSE NegInfinity)
    ELSE IF a.k = "num" THEN Num(0) ELSE NaN
\* (x / y) * 100 >= value; a finite ratio is compared cross-multiplied
percentAtLeast(x, y, value) ==
    LET a == ToNumber(x)
        b == ToNumber(y)
    IN IF a.k = "num" /\ b.k = "num" /\ b.v # 0 /\ value.k = "num"
       THEN (IF b.v > 0 THEN a.v * 100 >= value.v * b.v ELSE a.v * 100 <= value.v * b.v)
       ELSE LessEq(value, Mul(nonFiniteQuotient(a, b), Num(100)))

\* an object without keys, and o[key]
noPrices == [a \in {} |-> Undefined]
lookup(map, key) == IF key \in DOMAIN map THEN map[key] ELSE Undefined

----------------------------------------------------------------------------
(* Alert rules: AlertSystem                                                *)

\* Keep only last 100 triggered alerts (saveAlertHistory).
alertHistoryCap == 100

\* Model bounds.
MaxAlerts == 2
MaxPasses == 2

AlertAssets == {"btc"}
\* Prices fed to checkAlerts: missing, below and above the thresholds.
AlertPrices == {Undefined, Num(90), Num(105)}
\* The rules a user adds: a price threshold for above/below, a percentage for
\* change_up/change_down (the dashboard's own default rules are 10 %).
AlertInputs ==
    {<<"above", Num(100)>>, <<"below", Num(100)>>, <<"change_up", Num(10)>>,
     <<"change_down", Num(10)>>}

SeqToSet(q) == {q[i] : i \in 1..Len(q)}
\* Array.prototype.slice(-n)
LastN(q, n) == IF Len(q) <= n THEN q ELSE SubSeq(q, Len(q) - n + 1, Len(q))

AlertIds == {a.id : a \in SeqToSet(alerts)}

\* Mutant: a pass that looks at every active rule, triggered or not.
alertEligibleIgnoresTriggered(alert) == alert.active

\* checkAlerts: 'if (!alert.active || alert.triggered) return;'
alertEligible(alert) == alert.active /\ ~alert.triggered

\* checkAlerts: the price the rule is compared with, and its previous price
\* (previousPrices[alert.asset] || currentPrice).
alertCurrent(alert, currentPrices) == lookup(currentPrices, alert.asset)
alertPrevious(alert, currentPrices, previousPrices) ==
    Or(lookup(previousPrices, alert.asset), alertCurrent(alert, currentPrices))

\* checkAlerts: shouldTrigger for a rule whose price is present.
shouldTrigger(alert, currentPrices, previousPrices) ==
    LET cur == alertCurrent(alert, currentPrices)
        prev == alertPrevious(alert, currentPrices, previousPrices)
    IN /\ Truthy(cur)      \* 'if (!currentPrice || isNaN(currentPrice)) return;'
       /\ CASE alert.type = "above" -> Less(alert.value, cur)
            [] alert.type = "below" -> Less(cur, alert.value)
            [] alert.type = "change_up" -> percentAtLeast(Sub(cur, prev), prev, alert.value)
            [] alert.type = "change_down" -> percentAtLeast(Sub(prev, cur), prev, alert.value)
            [] OTHER -> FALSE

\* The rules that trigger in a pass.
triggeringIn(currentPrices, previousPrices) ==
    {i \in 1..Len(alerts) :
        alertEligible(alerts[i]) /\ shouldTrigger(alerts[i], currentPrices, previousPrices)}

saveAlertHistory(history) == LastN(history, alertHistoryCap)
\* saveAlerts: JSON.stringify(this.alerts)
jsonAlert(alert) ==
    [alert EXCEPT !.value = JsonProperty(alert.value),
                  !.triggeredPrice = JsonProperty(alert.triggeredPrice)]
saveAlerts(list) == [i \in 1..Len(list) |-> jsonAlert(list[i])]

addAlert(asset, type, value) ==
    /\ nextAlertId <= MaxAlerts
    /\ alerts' = Append(alerts, [id |-> nextAlertId, asset |-> asset, type |-> type,
                                 value |-> value, active |-> TRUE, triggered |-> FALSE,
                                 triggeredPrice |-> Undefined])
    /\ storedAlerts' = saveAlerts(alerts')
    /\ nextAlertId' = nextAlertId + 1
    /\ fires' = [i \in DOMAIN fires \cup {nextAlertId} |->
                    IF i = nextAlertId THEN 0 ELSE fires[i]]
    /\ lastPass' = [held |-> {}, returned |-> {}]
    /\ UNCHANGED <<alertHistory, storedAlertHistory, passes>>
    /\ UNCHANGED notAlerts

removeAlert(alertId) ==
    /\ alerts' = SelectSeq(alerts, LAMBDA a : a.id # alertId)
    /\ storedAlerts' = saveAlerts(alerts')
    /\ lastPass' = [held |-> {}, returned |-> {}]
    /\ UNCHANGED <<alertHistory, storedAlertHistory, nextAlertId, passes, fires>>
    /\ UNCHANGED notAlerts

\* toggleAlert: nothing happens, and nothing is saved, when no rule has the id.
toggleAlert(alertId) ==
    /\ alerts' = [i \in 1..Len(alerts) |->
                    IF alerts[i].id = alertId
                    THEN [alerts[i] EXCEPT !.active = ~alerts[i].active]
                    ELSE alerts[i]]
    /\ storedAlerts' = IF alertId \in AlertIds THEN saveAlerts(alerts') ELSE storedAlerts
    /\ lastPass' = [held |-> {}, returned |-> {}]
    /\ UNCHANGED <<alertHistory, storedAlertHistory, nextAlertId, passes, fires>>
    /\ UNCHANGED notAlerts

checkAlerts(currentPrices, previousPrices) ==
    LET hit == triggeringIn(currentPrices, previousPrices)
        hitIds == {alerts[i].id : i \in hit}
        pushed == SelectSeq([i \in 1..Len(alerts) |-> alerts[i].id], LAMBDA id : id \in hitIds)
    IN
    /\ passes' = passes + 1
    /\ alerts' = [i \in 1..Len(alerts) |->
                    IF i \in hit
                    THEN [alerts[i] EXCEPT !.triggered = TRUE,
                                           !.triggeredPrice = alertCurrent(alerts[i], currentPrices)]
                    ELSE alerts[i]]
    /\ alertHistory' = alertHistory \o pushed
    /\ IF hit # {}
       THEN /\ storedAlerts' = saveAlerts(alerts')
            /\ storedAlertHistory' = saveAlertHistory(alertHistory')
       ELSE UNCHANGED <<storedAlerts, storedAlertHistory>>
    /\ fires' = [id \in DOMAIN fires |-> IF id \in hitIds THEN fires[id] + 1 ELSE fires[id]]
    /\ lastPass' = [held |-> {alerts[i].id : i \in {j \in 1..Len(alerts) :
                                  shouldTrigger(alerts[j], currentPrices, previousPrices)}},
                    returned |-> hitIds]
    /\ UNCHANGED nextAlertId

resetTriggeredAlerts ==
    /\ alerts' = [i \in 1..Len(alerts) |->
                    IF alerts[i].triggered
                    THEN [alerts[i] EXCEPT !.triggered = FALSE, !.triggeredPrice = Undefined]
                    ELSE alerts[i]]
    /\ storedAlerts' = saveAlerts(alerts')
    /\ lastPass' = [held |-> {}, returned |-> {}]
    /\ UNCHANGED <<alertHistory, storedAlertHistory, nextAlertId, passes, fires>>
    /\ UNCHANGED notAlerts

clearAllAlerts ==
    /\ alerts' = <<>>
    /\ alertHistory' = <<>>
    /\ storedAlerts' = <<>>
    /\ storedAlertHistory' = saveAlertHistory(<<>>)
    /\ lastPass' = [held |-> {}, returned |-> {}]
    /\ UNCHANGED <<nextAlertId, passes, fires>>
    /\ UNCHANGED notAlerts

AddAlert == \E a \in AlertAssets, tv \in AlertInputs : addAlert(a, tv[1], tv[2])
RemoveAlert == \E id \in 0..MaxAlerts : removeAlert(id)
ToggleAlert == \E id \in 0..MaxAlerts : toggleAlert(id)
CheckAlerts ==
    \E cur \in [AlertAssets -> AlertPrices], prev \in [AlertAssets -> AlertPrices] :
        passes < MaxPasses /\ checkAlerts(cur, prev) /\ UNCHANGED notAlerts

\* The constructor: the rule list comes from localStorage (empty on first
\* use), the in-memory history starts empty.
AlertStart ==
    /\ alerts = <<>>
    /\ alertHistory = <<>>
    /\ storedAlerts = <<>>
    /\ storedAlertHistory = <<>>
    /\ nextAlertId = 1
    /\ passes = 0
    /\ fires = <<>>
    /\ lastPass = [held |-> {}, returned |-> {}]

\* new AlertSystem() on the next page load: the rule list is read back from
\* localStorage, this.alertHistory starts as [] (loadAlertHistory has no caller).
AlertReload ==
    /\ alerts' = storedAlerts
    /\ alertHistory' = <<>>
    /\ lastPass' = [held |-> {}, returned |-> {}]
    /\ UNCHANGED <<storedAlerts, storedAlertHistory, nextAlertId, passes, fires>>
    /\ UNCHANGED notAlerts

\* Evaluation passes and restarts only.
NextAlertLog == AddAlert \/ CheckAlerts \/ resetTriggeredAlerts \/ AlertReload

NextAlerts ==
    \/ AddAlert \/ RemoveAlert \/ ToggleAlert \/ CheckAlerts
    \/ resetTriggeredAlerts \/ clearAllAlerts

----------------------------------------------------------------------------
(* Paper trading: TradingPlatform                                          *)

\* Money (cash, total, fee) is counted in 1/feeDivisor of a dollar, so that
\* the fee of 0.001 of a total is a whole number; prices are in dollars and
\* amounts in units.
feeDivisor == 1000      \* fee = total * 0.001
initialCash == 10000    \* dollars

MaxOrders == 3          \* bound: trades attempted while the order log is shorter

NoAsset == ""           \* currentAsset: null
TradeAssets == {"btc", "usd_eur"}     \* api.userSelectedAssets of the trading page
TradeActions == {"buy", "sell"}
\* What api.fetchAllPrices can return for an asset: a positive quote (or the
\* last known / fallback price) and, for the inverted pairs, Infinity (1 / 0).
PricesOf(asset) ==
    IF asset = "usd_eur" THEN {Num(1), Infinity} ELSE {Num(5000)}
\* The text of the amount field, and parseFloat of it.
AmountInputs == {"", "abc", "0", "-1", "1", "2"}
parseFloat(s) ==
    CASE s = "0" -> Num(0)
      [] s = "-1" -> Num(-1)
      [] s = "1" -> Num(1)
      [] s = "2" -> Num(2)
      [] OTHER -> NaN

\* this.prices[asset]: undefined makes NaN of every product
priceOf(asset) == IF asset \in DOMAIN prices THEN prices[asset] ELSE NaN
\* this.portfolio.holdings[asset] || 0
holdingOf(holdings, asset) == IF asset \in DOMAIN holdings THEN holdings[asset] ELSE 0

tradeTotal(amount, price) == Mul(Mul(amount, price), Num(feeDivisor))
tradeFee(total) == IF total.k = "num" THEN Num(total.v \div feeDivisor) ELSE total

invalidTradeAcceptsNegative(asset, amount) == asset = NoAsset \/ ~Truthy(amount)
\* !asset || !amount || amount <= 0
invalidTrade(asset, amount) ==
    asset = NoAsset \/ ~Truthy(amount) \/ LessEq(amount, Num(0))

\* this.portfolio.cash < total + fee
insufficientFunds(cash, total, fee) == Less(cash, Add(total, fee))

insufficientHoldingsOnlyMissing(holdings, asset, amount) == holdingOf(holdings, asset) = 0
\* !this.portfolio.holdings[asset] || this.portfolio.holdings[asset] < amount
insufficientHoldings(holdings, asset, amount) ==
    holdingOf(holdings, asset) = 0 \/ Less(Num(holdingOf(holdings, asset)), amount)

holdingsAfterBuy(holdings, asset, amount) ==
    [a \in DOMAIN holdings \cup {asset} |->
        IF a = asset THEN holdingOf(holdings, asset) + amount.v ELSE holdings[a]]

\* holdings[asset] -= amount; if (holdings[asset] === 0) delete holdings[asset]
holdingsAfterSell(holdings, asset, amount) ==
    IF holdings[asset] - amount.v = 0
    THEN [a \in DOMAIN holdings \ {asset} |-> holdings[a]]
    ELSE [holdings EXCEPT ![asset] = @ - amount.v]

RECURSIVE holdingsValue(_, _, _)
\* the forEach of updatePortfolioValues: sum of amount * (prices[asset] || 0)
holdingsValue(holdings, keys, ps) ==
    IF keys = {} THEN Num(0)
    ELSE LET a == CHOOSE x \in keys : TRUE
             p == IF a \in DOMAIN ps /\ Truthy(ps[a]) THEN ps[a] ELSE Num(0)
         IN Add(Mul(Num(holdings[a]), Mul(p, Num(feeDivisor))),
                holdingsValue(holdings, keys \ {a}, ps))

updatePortfolioValues(p, ps) ==
    LET totalValue == IF DOMAIN p.holdings = {} THEN p.cash
                      ELSE Add(p.cash, holdingsValue(p.holdings, DOMAIN p.holdings, ps))
    IN [p EXCEPT !.totalValue = totalValue,
                 !.totalPnL = Sub(totalValue, Num(initialCash * feeDivisor))]

defaultPortfolio ==
    [cash |-> Num(initialCash * feeDivisor), holdings |-> [a \in {} |-> 0],
     totalValue |-> Num(initialCash * feeDivisor), totalPnL |-> Num(0)]

\* what JSON.parse reads back of what savePortfolio / saveOrders wrote
savePortfolio(p) ==
    [cash |-> JsonNumber(p.cash), holdings |-> p.holdings,
     totalValue |-> JsonNumber(p.totalValue), totalPnL |-> JsonNumber(p.totalPnL)]
saveOrders(os) ==
    [i \in 1..Len(os) |->
        [os[i] EXCEPT !.price = JsonNumber(@), !.total = JsonNumber(@), !.fee = JsonNumber(@)]]
loadPortfolio == IF storedPortfolio = <<>> THEN defaultPortfolio ELSE storedPortfolio[1]
loadOrders == IF storedOrders = <<>> THEN <<>> ELSE storedOrders[1]

\* executeTrade up to its first return: the reason it rejects, or "" when it
\* goes through.
tradeRejection(asset, action, amount, price, p) ==
    LET total == tradeTotal(amount, price)
        fee == tradeFee(total)
    IN IF invalidTrade(asset, amount) THEN "Please select an asset and enter amount"
       ELSE IF action = "buy" /\ insufficientFunds(p.cash, total, fee) THEN "Insufficient funds"
       ELSE IF action = "sell" /\ insufficientHoldings(p.holdings, asset, amount)
            THEN "Insufficient holdings"
       ELSE ""

\* the ledger after an accepted trade, before updatePortfolio
portfolioAfterTrade(asset, action, amount, price, p) ==
    LET total == tradeTotal(amount, price)
        fee == tradeFee(total)
    IN IF action = "buy"
       THEN [p EXCEPT !.cash = Sub(@, Add(total, fee)),
                      !.holdings = holdingsAfterBuy(@, asset, amount)]
       ELSE [p EXCEPT !.holdings = holdingsAfterSell(@, asset, amount),
                      !.cash = Add(@, Sub(total, fee))]

orderOf(asset, action, amount, price) ==
    [asset |-> asset, action |-> action, amount |-> amount.v, price |-> price,
     total |-> tradeTotal(amount, price), fee |-> tradeFee(tradeTotal(amount, price)),
     status |-> "completed"]

executeTrade ==
    LET asset == currentAsset
        amount == parseFloat(tradeAmount)
        price == priceOf(asset)
    IN /\ Len(orders) < MaxOrders
       /\ tradeCalls' = 1 - tradeCalls
       /\ IF tradeRejection(asset, currentAction, amount, price, portfolio) # ""
          THEN /\ notification' = tradeRejection(asset, currentAction, amount, price, portfolio)
               /\ UNCHANGED <<portfolio, orders, storedPortfolio, storedOrders, tradeAmount>>
          ELSE LET traded == portfolioAfterTrade(asset, currentAction, amount, price, portfolio)
                   unshifted == <<orderOf(asset, currentAction, amount, price)>> \o orders
               IN /\ orders' = unshifted
                  /\ storedPortfolio' = <<savePortfolio(traded)>>
                  /\ storedOrders' = <<saveOrders(unshifted)>>
                  /\ notification' = (IF currentAction = "buy" THEN "Bought" ELSE "Sold")
                  /\ tradeAmount' = ""
                  /\ portfolio' = updatePortfolioValues(traded, prices)
       /\ UNCHANGED <<currentAction, currentAsset, prices>>
       /\ UNCHANGED notTrade

\* this.prices = await this.api.fetchAllPrices(); then the grid, the asset
\* list and the portfolio values are refreshed.
loadMarketData(fetched) ==
    /\ prices' = fetched
    /\ portfolio' = updatePortfolioValues(portfolio, fetched)
    /\ UNCHANGED <<orders, storedPortfolio, storedOrders, currentAction, currentAsset,
                   tradeAmount, notification, tradeCalls>>
    /\ UNCHANGED notTrade

\* A click on a market card or a choice in the asset list; both offer the
\* assets of the last market data.
selectAsset(asset) ==
    /\ asset \in DOMAIN prices
    /\ currentAsset' = asset
    /\ UNCHANGED <<portfolio, orders, storedPortfolio, storedOrders, currentAction, prices,
                   tradeAmount, notification, tradeCalls>>
    /\ UNCHANGED notTrade

\* A click on the buy or the sell tab.
setAction(action) ==
    /\ currentAction' = action
    /\ UNCHANGED <<portfolio, orders, storedPortfolio, storedOrders, currentAsset, prices,
                   tradeAmount, notification, tradeCalls>>
    /\ UNCHANGED notTrade

\* Typing into the amount field, or a quick-amount button (setAmount with a
\* fixed value).
setAmount(value) ==
    /\ tradeAmount' = value
    /\ UNCHANGED <<portfolio, orders, storedPortfolio, storedOrders, currentAction,
                   currentAsset, prices, notification, tradeCalls>>
    /\ UNCHANGED notTrade

\* The page is opened again: the constructor and init, before the first
\* market data arrives.
TradeReload ==
    /\ portfolio' = updatePortfolioValues(loadPortfolio, [a \in {} |-> NaN])
    /\ orders' = loadOrders
    /\ currentAction' = "buy"
    /\ currentAsset' = NoAsset
    /\ prices' = [a \in {} |-> NaN]
    /\ tradeAmount' = ""
    /\ notification' = ""
    /\ UNCHANGED <<storedPortfolio, storedOrders, tradeCalls>>
    /\ UNCHANGED notTrade

LoadMarketData ==
    \E fetched \in {f \in [TradeAssets -> UNION {PricesOf(a) : a \in TradeAssets}] :
                        \A a \in TradeAssets : f[a] \in PricesOf(a)} :
        loadMarketData(fetched)
SelectAsset == \E asset \in TradeAssets : selectAsset(asset)
SetAction == \E action \in TradeActions : setAction(action)
SetAmount == \E value \in AmountInputs : setAmount(value)

\* First visit: nothing stored.
TradeStart ==
    /\ portfolio = defaultPortfolio
    /\ orders = <<>>
    /\ storedPortfolio = <<>>
    /\ storedOrders = <<>>
    /\ currentAction = "buy"
    /\ currentAsset = NoAsset
    /\ prices = [a \in {} |-> NaN]
    /\ tradeAmount = ""
    /\ notification = ""
    /\ tradeCalls = 0

NextTrade ==
    \/ executeTrade \/ LoadMarketData \/ SelectAsset \/ SetAction \/ SetAmount
    \/ TradeReload

----------------------------------------------------------------------------
(* Price fetch cycle: UniversalAPI.fetchPrice / fetchAllPrices             *)

\* Quotes and prices of this section are counted in 1/milli (0.92 is 920).
milli == 1000

\* this.assets, the catalog: an asset of the crypto type (the metals are
\* fetched the same way), a currency pair that is inverted, one that is not,
\* one fetchForexPrice has no symbol for, and a Big Mac price.
assets ==
    [btc |-> "crypto", usd_eur |-> "currency", usd_jpy |-> "currency",
     usd_krw |-> "currency", bigmac_us |-> "bigmac"]
fallbackPrices ==
    [btc |-> Num(43000 * milli), usd_eur |-> Num(920), usd_jpy |-> Num(150 * milli),
     usd_krw |-> Num(1320 * milli), bigmac_us |-> Num(5690)]
cryptoSymbols == {"btc"}
forexSymbols == {"usd_eur", "usd_jpy"}
\* asset.includes('eur') || asset.includes('gbp') || asset.includes('aud')
invertedPair(asset) == asset \in {"usd_eur"}
realPrices == [bigmac_us |-> Num(5690)]
\* (Math.random() - 0.5) * 0.02, in 1/milli
BigMacVariations == {-10, 5}

\* The selection and the last prices a returning user has in localStorage.
FetchSelection == <<"btc", "usd_eur">>
storedPricesAtStart == [btc |-> Num(41000 * milli), usd_eur |-> Num(900)]
\* What the asset picker can save, and what an imported file can carry as
\* well: "zzz" is a key outside the catalog.
PickerSelections == {<<"btc", "usd_eur">>, <<"usd_jpy", "usd_krw">>}
ImportSelections == PickerSelections \cup {<<"bigmac_us", "zzz">>, <<>>}

\* regularMarketPrice of a parsed response: missing, a non-numeric text,
\* zero, negative, positive.
UpstreamQuotes == {Undefined, Text, Num(0), Num(-1250), Num(1250)}

\* map[key]
\* 1 / x
Reciprocal(x) ==
    LET a == ToNumber(x)
    IN CASE a.k = "nan" -> NaN
         [] a.k = "num" /\ a.v = 0 -> Infinity
         [] a.k = "num" -> Num((milli * milli) \div a.v)
         [] OTHER -> Num(0)

Return(value) == [threw |-> FALSE, value |-> value]
Throw == [threw |-> TRUE, value |-> Undefined]

\* fetchCryptoPrice / fetchMetalPrice once the data is there
fetchCryptoPrice(asset, quote) ==
    IF Truthy(quote) /\ Less(Num(0), quote) THEN Return(quote) ELSE Throw
\* fetchForexPrice once the data is there
fetchForexPrice(asset, quote) ==
    LET rate == IF invertedPair(asset) THEN Reciprocal(quote) ELSE quote
    IN IF Truthy(rate) /\ Less(Num(0), rate) THEN Return(rate) ELSE Throw
quotedPrice(asset, quote) ==
    IF assets[asset] = "crypto" THEN fetchCryptoPrice(asset, quote)
    ELSE fetchForexPrice(asset, quote)

\* fetchPrice reaches fetchWithTimeout: a catalog asset with a symbol
needsRequest(asset) ==
    /\ asset \in DOMAIN assets
    /\ \/ assets[asset] = "crypto" /\ asset \in cryptoSymbols
       \/ assets[asset] = "currency" /\ asset \in forexSymbols
\* the catch of fetchPrice
catchPrice(asset) ==
    Or(Or(lookup(lastPrices, asset), lookup(fallbackPrices, asset)), Num(0))
getBigMacPrice(asset, variation) ==
    LET basePrice == Or(Or(lookup(realPrices, asset), lookup(fallbackPrices, asset)),
                        Num(5 * milli))
    IN Num(basePrice.v + (basePrice.v * variation) \div milli)

cycleAsset == cycleAssets[cycleIndex]

\* prices[asset] = await this.fetchPrice(asset), and the return after the
\* last asset
settlePrice(asset, value, how, quote) ==
    LET filled == [a \in DOMAIN cyclePrices \cup {asset} |->
                      IF a = asset THEN value ELSE cyclePrices[a]]
    IN /\ cyclePrices' = filled
       /\ cycleIndex' = cycleIndex + 1
       /\ lastFetch' = [asset |-> asset, how |-> how, quote |-> quote]
       /\ IF cycleIndex = Len(cycleAssets)
          THEN fetchPc' = "idle" /\ returned' = filled
          ELSE UNCHANGED <<fetchPc, returned>>

\* api.fetchAllPrices up to its first await
fetchAllPrices ==
    /\ fetchPc = "idle"
    /\ cycleAssets' = userSelectedAssets
    /\ cycleIndex' = 1
    /\ cyclePrices' = noPrices
    /\ IF userSelectedAssets = <<>>
       THEN returned' = noPrices /\ UNCHANGED fetchPc
       ELSE fetchPc' = "fetching" /\ UNCHANGED returned
    /\ UNCHANGED <<userSelectedAssets, storedSelection, lastPrices, storedLastPrices,
                   cycleSlot, lastFetch>>
    /\ UNCHANGED <<cbVars, notFetch>>

\* fetchPrice of an asset that settles without a request: a key outside the
\* catalog, a Big Mac price, an asset its fetcher has no symbol for.
fetchPriceLocal(variation) ==
    /\ fetchPc = "fetching" /\ cycleSlot = 0
    /\ ~needsRequest(cycleAsset)
    /\ IF cycleAsset \notin DOMAIN assets
       THEN /\ settlePrice(cycleAsset, Or(lookup(fallbackPrices, cycleAsset), Num(0)),
                           "unknown_asset", Undefined)
            /\ UNCHANGED <<lastPrices, storedLastPrices>>
       ELSE IF assets[cycleAsset] = "bigmac"
       THEN LET price == getBigMacPrice(cycleAsset, variation)
                written == [a \in DOMAIN lastPrices \cup {cycleAsset} |->
                               IF a = cycleAsset THEN price ELSE lastPrices[a]]
            IN /\ lastPrices' = written
               /\ storedLastPrices' = <<written>>
               /\ settlePrice(cycleAsset, price, "bigmac", Undefined)
       ELSE /\ settlePrice(cycleAsset, catchPrice(cycleAsset), "unsupported", Undefined)
            /\ UNCHANGED <<lastPrices, storedLastPrices>>
    /\ UNCHANGED <<userSelectedAssets, storedSelection, cycleAssets, cycleSlot>>
    /\ UNCHANGED <<cbVars, notFetch>>

\* fetchPrice of an asset with a symbol, up to the await in fetchWithTimeout;
\* the open breaker throws at once and the catch of fetchPrice answers.
fetchPriceCall ==
    /\ fetchPc = "fetching" /\ cycleSlot = 0
    /\ needsRequest(cycleAsset)
    /\ fetchWithTimeout("quote")
    /\ IF breakerRejects(circuitBreaker, now)
       THEN /\ settlePrice(cycleAsset, catchPrice(cycleAsset), "breaker_open", Undefined)
            /\ UNCHANGED cycleSlot
       ELSE /\ cycleSlot' = FirstFree
            /\ UNCHANGED <<fetchPc, cycleIndex, cyclePrices, returned, lastFetch>>
    /\ UNCHANGED <<userSelectedAssets, storedSelection, lastPrices, storedLastPrices,
                   cycleAssets>>
    /\ UNCHANGED notFetch

\* ... and from the response on: the quote is taken when it is valid, the
\* catch of fetchPrice answers otherwise.
fetchPriceResponse(o, quote) ==
    /\ cycleSlot # 0
    /\ fetchResponse(cycleSlot, o)
    /\ cycleSlot' = 0
    /\ IF o = "ok" /\ ~quotedPrice(cycleAsset, quote).threw
       THEN settlePrice(cycleAsset, quotedPrice(cycleAsset, quote).value, o, quote)
       ELSE settlePrice(cycleAsset, catchPrice(cycleAsset), o,
                        IF o = "ok" THEN quote ELSE Undefined)
    /\ UNCHANGED <<userSelectedAssets, storedSelection, lastPrices, storedLastPrices,
                   cycleAssets>>
    /\ UNCHANGED notFetch

saveUserSelection(selectedAssets) ==
    /\ userSelectedAssets' = selectedAssets
    /\ storedSelection' = selectedAssets
    /\ UNCHANGED <<lastPrices, storedLastPrices, fetchPc, cycleAssets, cycleIndex, cycleSlot,
                   cyclePrices, returned, lastFetch>>
    /\ UNCHANGED <<cbVars, notFetch>>

\* The cycle and the selection, called on their own.
FetchAllPrices == fetchAllPrices /\ UNCHANGED dashVars
FetchPriceLocal ==
    \E variation \in BigMacVariations : fetchPriceLocal(variation) /\ UNCHANGED dashVars
FetchPriceCall == fetchPriceCall /\ UNCHANGED dashVars
FetchPriceResponse ==
    \E o \in Outcomes, quote \in UpstreamQuotes :
        fetchPriceResponse(o, quote) /\ UNCHANGED dashVars
\* (a cycle reads the selection once, when it starts: the selection is
\* changed between cycles)
SaveUserSelection ==
    \E selectedAssets \in ImportSelections :
        fetchPc = "idle" /\ saveUserSelection(selectedAssets) /\ UNCHANGED dashVars

\* The constructor of UniversalAPI, for a returning user.
FetchStart ==
    /\ userSelectedAssets = FetchSelection
    /\ storedSelection = FetchSelection
    /\ lastPrices = storedPricesAtStart
    /\ storedLastPrices = <<storedPricesAtStart>>
    /\ fetchPc = "idle"
    /\ cycleAssets = <<>>
    /\ cycleIndex = 1
    /\ cycleSlot = 0
    /\ cyclePrices = noPrices
    /\ returned = noPrices
    /\ lastFetch = [asset |-> "", how |-> "none", quote |-> Undefined]

NextFetch ==
    \/ FetchAllPrices \/ FetchPriceLocal \/ FetchPriceCall \/ FetchPriceResponse
    \/ SaveUserSelection \/ TimePasses

----------------------------------------------------------------------------
(* Dashboard: the price snapshot of UniversalTracker                       *)

\* this.allPrices as it reads
snapshot == IF allPricesIsLastPrices THEN lastPrices ELSE allPrices

WebSocketSymbols == {"BTCUSDT", "XRPUSDT"}
WebSocketPrices == {Undefined, Num(42000 * milli)}
mapSymbolToAsset(symbol) == IF symbol = "BTCUSDT" THEN "btc" ELSE NoAsset

\* tracker.fetchAllPrices after its await: the result of the cycle becomes
\* the snapshot, an empty result is replaced by api.lastPrices itself.  (The
\* display, the history and the alert check that follow are left to their
\* own components.)
trackerAwaits ==
    IF fetchPc' = "idle"
    THEN IF DOMAIN returned' = {}
         THEN allPrices' = noPrices /\ allPricesIsLastPrices' = TRUE
         ELSE allPrices' = returned' /\ allPricesIsLastPrices' = FALSE
    ELSE UNCHANGED dashVars

\* tracker.fetchAllPrices, by timer, visibility change or refresh; the model
\* follows one cycle at a time.
TrackerFetchAllPrices == fetchAllPrices /\ trackerAwaits
TrackerFetchPriceLocal ==
    \E variation \in BigMacVariations : fetchPriceLocal(variation) /\ trackerAwaits
TrackerFetchPriceCall == fetchPriceCall /\ trackerAwaits
TrackerFetchPriceResponse ==
    \E o \in Outcomes, quote \in UpstreamQuotes : fetchPriceResponse(o, quote) /\ trackerAwaits

handleWebSocketMessage(symbol, price) ==
    LET asset == mapSymbolToAsset(symbol)
        written(map) == [a \in DOMAIN map \cup {asset} |-> IF a = asset THEN price ELSE map[a]]
    IN /\ IF Truthy(price) /\ asset # NoAsset /\ lookup(snapshot, asset) # price
          THEN IF allPricesIsLastPrices
               THEN lastPrices' = written(lastPrices) /\ UNCHANGED allPrices
               ELSE allPrices' = written(allPrices) /\ UNCHANGED lastPrices
          ELSE UNCHANGED <<allPrices, lastPrices>>
       /\ UNCHANGED <<allPricesIsLastPrices, userSelectedAssets, storedSelection,
                      storedLastPrices, fetchPc, cycleAssets, cycleIndex, cycleSlot,
                      cyclePrices, returned, lastFetch>>
       /\ UNCHANGED <<cbVars, notFetch>>

\* The global saveAssetSelection: the checked boxes are saved and a cycle is
\* started.
saveAssetSelection(selectedAssets) ==
    /\ selectedAssets # <<>>
    /\ fetchPc = "idle"
    /\ userSelectedAssets' = selectedAssets
    /\ storedSelection' = selectedAssets
    /\ cycleAssets' = selectedAssets
    /\ cycleIndex' = 1
    /\ cyclePrices' = noPrices
    /\ fetchPc' = "fetching"
    /\ UNCHANGED <<lastPrices, storedLastPrices, cycleSlot, returned, lastFetch>>
    /\ UNCHANGED dashVars
    /\ UNCHANGED <<cbVars, notFetch>>

HandleWebSocketMessage ==
    \E symbol \in WebSocketSymbols, price \in WebSocketPrices :
        handleWebSocketMessage(symbol, price)
SaveAssetSelection == \E selectedAssets \in PickerSelections : saveAssetSelection(selectedAssets)

----------------------------------------------------------------------------
(* Price history: UniversalTracker.saveToHistory and DataStorage           *)

MaxHistory == 3         \* bound: the length saveToHistory keeps (1000 in the source)
MaxAppends == 5         \* bound: points appended in a run
maxHistoryItems == 10000
HistoryAssets == {"btc", "usd_eur"}
HistoryPrices == {Num(43000 * milli), Num(44000 * milli)}
\* What a cycle returns for the selected assets.
HistoryCycles ==
    {[a \in HistoryAssets |->
        IF a = "btc" THEN p ELSE IF p = Num(44000 * milli) THEN Num(950) ELSE Num(900)] :
        p \in HistoryPrices}
RandomChanges == {-3, 4}       \* (Math.random() - 0.5) * 10
simulatedVolume == Num(500 * milli)    \* Math.random() * 1000000

\* Strings that pass through compress are sequences of characters.
Whitespace == {" "}
StripWhitespace(s) == SelectSeq(s, LAMBDA c : c \notin Whitespace)
timestampKey == <<"t", "i", "m", "e", "s", "t", "a", "m", "p">>
priceKey == <<"p", "r", "i", "c", "e">>
assetKey == <<"a", "s", "s", "e", "t">>
\* new Date().toLocaleString(): a date, a comma, a blank, a time
toLocaleString(n) == <<ToString(n), ",", " ", "A", "M">>

\* What compress does to a string of the JSON text: whitespace goes, and the
\* quoted words timestamp, price and asset become t, p and a.
compressString(s) ==
    LET stripped == StripWhitespace(s)
    IN CASE stripped = timestampKey -> <<"t">>
         [] stripped = priceKey -> <<"p">>
         [] stripped = assetKey -> <<"a">>
         [] OTHER -> stripped
\* What decompress does to a string of the stored text.
decompressString(s) ==
    CASE s = <<"t">> -> timestampKey
      [] s = <<"p">> -> priceKey
      [] s = <<"a">> -> assetKey
      [] OTHER -> s
\* An asset key is a word without whitespace.
compressWord(w) ==
    CASE w = "timestamp" -> "t" [] w = "price" -> "p" [] w = "asset" -> "a" [] OTHER -> w
decompressWord(w) ==
    CASE w = "t" -> "timestamp" [] w = "p" -> "price" [] w = "a" -> "asset" [] OTHER -> w

\* The stored text of a list of records, as the JSON document it denotes:
\* the keys timestamp, price and asset are written t, p and a.
compress(data) ==
    [i \in 1..Len(data) |->
        [t |-> compressString(data[i].timestamp),
         p |-> JsonNumber(data[i].price),
         a |-> compressWord(data[i].asset),
         change |-> JsonNumber(data[i].change),
         volume |-> JsonNumber(data[i].volume)]]
decompress(compressedData) ==
    [i \in 1..Len(compressedData) |->
        [timestamp |-> decompressString(compressedData[i].t),
         price |-> compressedData[i].p,
         asset |-> decompressWord(compressedData[i].a),
         change |-> compressedData[i].change,
         volume |-> compressedData[i].volume]]

slice(q, n) == IF Len(q) <= n THEN q ELSE SubSeq(q, 1, n)

\* A stored blob either parses or does not.
parsable(text) == [ok |-> TRUE, data |-> text]
unparsable == [ok |-> FALSE, data |-> <<>>]

saveHistory(store, history, asset) ==
    [store EXCEPT ![asset] = <<parsable(compress(slice(history, maxHistoryItems)))>>]
loadHistoryFrom(store, asset) ==
    IF store[asset] = <<>> THEN <<>>
    ELSE IF store[asset][1].ok THEN decompress(store[asset][1].data) ELSE <<>>
loadHistory(asset) == loadHistoryFrom(historyStore, asset)

historyItem ==
    [price |-> currentPrice',
     timestamp |-> toLocaleString(historyClock),
     change |-> IF Less(Num(0), previousPrice') THEN Sub(currentPrice', previousPrice')
                ELSE Num(0),
     asset |-> trackerAsset,
     volume |-> simulatedVolume]

\* saveToHistory, with this.currentPrice and this.previousPrice as the cycle
\* has just set them.
saveToHistory ==
    IF ~Truthy(currentPrice') \/ LessEq(currentPrice', Num(0))
    THEN UNCHANGED <<priceHistory, historyStore, historyClock, appendedLog>>
    ELSE /\ priceHistory' = slice(<<historyItem>> \o priceHistory, MaxHistory)
         /\ historyStore' = saveHistory(historyStore, priceHistory', trackerAsset)
         /\ historyClock' = historyClock + 1
         /\ appendedLog' = [appendedLog EXCEPT ![trackerAsset] = <<historyItem>> \o @]

\* A percent change (n / d) * 100, kept as the fraction n * 100 over d.
\* (in lowest terms, d > 0, so that equal changes are equal values)
RECURSIVE Gcd(_, _)
Gcd(x, y) == IF y = 0 THEN x ELSE Gcd(y, x % y)
Abs(x) == IF x < 0 THEN -x ELSE x
lowestTerms(n, d) ==
    LET g == Gcd(Abs(n), Abs(d))
        s == IF d < 0 THEN -1 ELSE 1
    IN [n |-> Num(s * (n \div g)), d |-> s * (d \div g)]
percentOf(n, d) ==
    IF ToNumber(n).k = "num" /\ ToNumber(d).k = "num" /\ ToNumber(d).v # 0
    THEN lowestTerms(ToNumber(n).v * 100, ToNumber(d).v)
    ELSE [n |-> Mul(nonFiniteQuotient(ToNumber(n), ToNumber(d)), Num(100)), d |-> 1]
wholePercent(r) == [n |-> Num(r), d |-> 1]

\* calculateChange(asset): the values it can return, from a stored history
\* and a snapshot.
calculateChangeFrom(store, snap, asset) ==
    LET history == loadHistoryFrom(store, asset)
        current == Or(lookup(snap, asset), Num(0))
        previous == Or(history[2].price, history[1].price)
    IN IF Len(history) < 2 THEN {wholePercent(r) : r \in RandomChanges}
       ELSE IF ~Truthy(previous) THEN {wholePercent(0)}
       ELSE {percentOf(Sub(current, previous), previous)}
calculateChange(asset) == calculateChangeFrom(historyStore, snapshot, asset)

\* checkPriceAlerts: this.alerts.checkAlerts(this.allPrices, this.previousPrices || {}),
\* where nothing ever assigns this.previousPrices.
trackerPreviousPrices == Undefined
checkPriceAlerts(fetched) ==
    checkAlerts(fetched, IF Truthy(trackerPreviousPrices) THEN trackerPreviousPrices ELSE noPrices)

\* The end of tracker.fetchAllPrices: the result of the cycle becomes the
\* snapshot, the price of the displayed asset is saved to the history and the
\* alert rules are checked.
cycleTail(fetched) ==
    /\ historyClock < MaxAppends
    /\ allPrices' = fetched
    /\ allPricesIsLastPrices' = FALSE
    /\ previousPrice' = currentPrice
    /\ currentPrice' = Or(lookup(fetched, trackerAsset), Num(0))
    /\ saveToHistory
    /\ checkPriceAlerts(fetched)
    /\ UNCHANGED trackerAsset
    /\ UNCHANGED <<cbVars, tradeVars, fetchVars, exportVars, analyticsVars, loadVars, pageVars>>

switchAsset(asset) ==
    /\ trackerAsset' = asset
    /\ currentPrice' = Or(lookup(snapshot, asset), Num(0))
    /\ priceHistory' = loadHistory(asset)
    /\ UNCHANGED <<previousPrice, historyStore, historyClock, appendedLog>>
    /\ UNCHANGED <<cbVars, alertVars, tradeVars, fetchVars, dashVars, exportVars, analyticsVars, loadVars, pageVars>>

CycleTail == \E fetched \in HistoryCycles : cycleTail(fetched)
\* Cycles in which the price of btc moves by 10 % and more, with percent
\* rules on btc (createAlert, initializeAlerts).
AlertCycles == {[btc |-> Num(p), usd_eur |-> Num(900)] : p \in {90, 100, 110}}
AlertCycle == \E fetched \in AlertCycles : cycleTail(fetched)
CycleAddAlert ==
    \E tv \in AlertInputs :
        tv[1] \in {"change_up", "change_down"} /\ addAlert("btc", tv[1], tv[2])
NextCycleAlerts == AlertCycle \/ CycleAddAlert \/ ToggleAlert
SwitchAsset == \E asset \in HistoryAssets : switchAsset(asset)

HistoryStart ==
    /\ priceHistory = <<>>
    /\ trackerAsset = "btc"
    /\ currentPrice = Num(0)
    /\ previousPrice = Num(0)
    /\ historyStore = [a \in HistoryAssets \cup {"default"} |-> <<>>]
    /\ historyClock = 0
    /\ appendedLog = [a \in HistoryAssets |-> <<>>]

----------------------------------------------------------------------------
(* Export and import: UniversalTracker.exportData / importData             *)

MaxExports == 1         \* bound: backups downloaded in a run
MaxRestores == 1        \* bound: imports of the downloaded backup

\* A property of the document that is missing, or present with a value.
absent == <<>>
present(value) == <<value>>

\* AlertSystem.exportAlerts, as JSON.stringify writes it
exportAlerts == [alerts |-> saveAlerts(alerts), history |-> alertHistory]
\* DataStorage.exportData: the histories of the assets of the history index
storageExportData ==
    LET indexed == {a \in DOMAIN historyStore : historyStore[a] # <<>>}
    IN [a \in indexed |-> loadHistory(a)]

\* The document of exportData (settings and theme are left aside).
exportedDocument ==
    [alerts |-> present(exportAlerts),
     userAssets |-> present(userSelectedAssets),
     priceHistory |-> present(parsable(storageExportData))]

exportData ==
    /\ Len(exportedFile) < MaxExports
    /\ exportedFile' = <<exportedDocument>>
    /\ exportedState' = <<[alerts |-> alerts, userAssets |-> userSelectedAssets,
                           portfolio |-> portfolio]>>
    /\ UNCHANGED <<cbVars, alertVars, tradeVars, fetchVars, dashVars, histVars, restores, importNotice,
                   malformedImports, analyticsVars, loadVars, pageVars>>

\* AlertSystem.importAlerts
importAlerts(data) ==
    /\ alerts' = data.alerts
    /\ storedAlerts' = saveAlerts(alerts')
    /\ alertHistory' = data.history
    /\ storedAlertHistory' = saveAlertHistory(alertHistory')
    /\ lastPass' = [held |-> {}, returned |-> {}]
    /\ UNCHANGED <<nextAlertId, passes, fires>>

\* DataStorage.importData: a text that does not parse is caught and nothing is saved
storageImportData(jsonData) ==
    IF ~jsonData.ok THEN UNCHANGED historyStore
    ELSE LET histories == jsonData.data
         IN historyStore' = [a \in DOMAIN historyStore |->
                                IF a \in DOMAIN histories
                                THEN saveHistory(historyStore, histories[a], a)[a]
                                ELSE historyStore[a]]

\* importData: what the document holds is saved as it is (the page reloads a
\* second later).
importData(data) ==
    /\ importNotice' = "Data imported successfully"
    /\ IF data.alerts # absent THEN importAlerts(data.alerts[1]) ELSE UNCHANGED alertVars
    /\ IF data.userAssets # absent
       THEN /\ userSelectedAssets' = data.userAssets[1]
            /\ storedSelection' = data.userAssets[1]
       ELSE UNCHANGED <<userSelectedAssets, storedSelection>>
    /\ IF data.priceHistory # absent
       THEN storageImportData(data.priceHistory[1])
       ELSE UNCHANGED historyStore
    /\ UNCHANGED <<lastPrices, storedLastPrices, fetchPc, cycleAssets, cycleIndex, cycleSlot,
                   cyclePrices, returned, lastFetch>>
    /\ UNCHANGED <<priceHistory, trackerAsset, currentPrice, previousPrice, historyClock,
                   appendedLog>>
    /\ UNCHANGED <<cbVars, tradeVars, dashVars, exportedFile, exportedState, analyticsVars, loadVars, pageVars>>

\* A file written by hand that holds a selection only.
ImportData ==
    \E userAssets \in ImportSelections :
        /\ importData([alerts |-> absent, userAssets |-> present(userAssets),
                       priceHistory |-> absent])
        /\ UNCHANGED <<restores, malformedImports>>
\* The downloaded backup is imported.
ImportExported ==
    /\ exportedFile # <<>>
    /\ restores < MaxRestores
    /\ importData(exportedFile[1])
    /\ restores' = restores + 1
    /\ UNCHANGED malformedImports

\* Malformed files: a text that is not JSON, a document without any of the
\* fields, and documents whose priceHistory is not the text of a storage export.
MaxMalformed == 3       \* malformed files imported in a run
notJson == [json |-> FALSE, data |-> <<>>]
document(data) == [json |-> TRUE, data |-> data]
MalformedFiles ==
    {notJson, document([alerts |-> absent, userAssets |-> absent, priceHistory |-> absent])}
    \cup {document([alerts |-> absent, userAssets |-> present(s),
                    priceHistory |-> present(unparsable)]) : s \in PickerSelections}

\* the onload handler of importData: JSON.parse of the file's text throws
\* into the catch block, which shows the error
onload(file) ==
    IF file.json THEN importData(file.data)
    ELSE /\ importNotice' = "Failed to import data"
         /\ UNCHANGED <<alertVars, fetchVars, histVars>>
         /\ UNCHANGED <<cbVars, tradeVars, dashVars, exportedFile, exportedState, analyticsVars,
                        loadVars, pageVars>>

ImportMalformed ==
    \E file \in MalformedFiles :
        /\ malformedImports < MaxMalformed
        /\ malformedImports' = malformedImports + 1
        /\ onload(file)
        /\ UNCHANGED restores

\* What happens to the rules, the selection and the portfolio between an
\* export and an import.
ExportAddAlert == \E tv \in AlertInputs : tv[1] = "above" /\ addAlert("btc", tv[1], tv[2])
\* the prices of a cycle: those above and the Infinity a price cycle can return
ExportPrices == AlertPrices \cup {Infinity}
ExportCheckAlerts ==
    \E cur \in ExportPrices :
        /\ passes < MaxPasses
        /\ checkAlerts([a \in AlertAssets |-> cur], noPrices)
        /\ UNCHANGED notAlerts

ExportStart ==
    /\ exportedFile = <<>>
    /\ exportedState = <<>>
    /\ restores = 0
    /\ importNotice = "none"
    /\ malformedImports = 0

NextExport ==
    \/ exportData \/ ImportExported
    \/ ExportAddAlert \/ ToggleAlert \/ ExportCheckAlerts \/ SaveUserSelection

\* Malformed files are imported between changes of the rules and the selection.
NextImport == ImportMalformed \/ ExportAddAlert \/ ToggleAlert \/ SaveUserSelection

\* The same with the trading page in between: one unit of btc is bought at a
\* time.
ExportLoadMarketData == loadMarketData([a \in TradeAssets |-> Num(IF a = "btc" THEN 5000 ELSE 1)])
ExportSelectAsset == selectAsset("btc")
ExportSetAmount == setAmount("1")

NextExportTrade ==
    \/ exportData \/ ImportExported \/ SaveUserSelection
    \/ ExportLoadMarketData \/ ExportSelectAsset \/ ExportSetAmount \/ executeTrade

\* The page is loaded again: new UniversalTracker(), new UniversalAPI().
TrackerReload ==
    /\ allPrices' = noPrices
    /\ allPricesIsLastPrices' = FALSE
    /\ userSelectedAssets' = storedSelection
    /\ lastPrices' = IF storedLastPrices = <<>> THEN fallbackPrices ELSE storedLastPrices[1]
    /\ fetchPc' = "idle"
    /\ cycleAssets' = <<>>
    /\ cycleIndex' = 1
    /\ cycleSlot' = 0
    /\ cyclePrices' = noPrices
    /\ returned' = noPrices
    /\ circuitBreaker' = initialCircuitBreaker
    /\ inflight' = [s \in Slots |-> "none"]
    /\ startedAt' = [s \in Slots |-> NoTime]
    /\ probe' = 0
    /\ consecFailures' = 0
    /\ failedKinds' = {}
    /\ UNCHANGED <<storedSelection, storedLastPrices, lastFetch, now, issued, rejected,
                   lastOutcome>>
    /\ trackerAsset' = "btc"
    /\ currentPrice' = Num(0)
    /\ previousPrice' = Num(0)
    /\ priceHistory' = loadHistory("default")
    /\ UNCHANGED <<historyStore, historyClock, appendedLog>>
    /\ UNCHANGED <<alertVars, tradeVars, exportVars, analyticsVars, loadVars, pageVars>>

DashStart ==
    /\ allPrices = noPrices
    /\ allPricesIsLastPrices = FALSE

NextHistory == CycleTail \/ SwitchAsset \/ TrackerReload

NextDash ==
    \/ TrackerFetchAllPrices \/ TrackerFetchPriceLocal \/ TrackerFetchPriceCall
    \/ TrackerFetchPriceResponse
    \/ HandleWebSocketMessage \/ SaveAssetSelection \/ ImportData \/ TrackerReload

-----------------------------------------------------------------------------
(* Analytics: the relative strength index                                  *)
(* src/unnamed/part_002, Analytics.calculateRSI                            *)

MaxPrices == 4          \* longest price list handed to calculateRSI
MaxPeriod == 3          \* largest period (14 when the caller gives none)
RsiPeriods == 2..MaxPeriod
\* a price of the history: a missing one or a positive amount
RsiPrices == {Null, Num(1), Num(2), Num(3)}
RECURSIVE SeqsUpTo(_, _)
SeqsUpTo(S, n) ==
    IF n = 0 THEN {<<>>}
    ELSE SeqsUpTo(S, n - 1)
         \cup {Append(s, x) : s \in {t \in SeqsUpTo(S, n - 1) : Len(t) = n - 1}, x \in S}
RsiInputs == SeqsUpTo(RsiPrices, MaxPrices)

\* p && !isNaN(p)
validPrice(p) == Truthy(p) /\ ToNumber(p).k # "nan"
MathAbs(x) == IF Less(x, Num(0)) THEN Neg(x) ELSE x
\* validPrices[i] - validPrices[i - 1] (the list counts from 1 here)
rsiChange(validPrices, i) == Sub(validPrices[i + 1], validPrices[i])
\* gains and losses after the loop has run for 1..i
RECURSIVE rsiGains(_, _)
rsiGains(validPrices, i) ==
    IF i = 0 THEN Num(0)
    ELSE IF Less(Num(0), rsiChange(validPrices, i))
         THEN Add(rsiGains(validPrices, i - 1), rsiChange(validPrices, i))
         ELSE rsiGains(validPrices, i - 1)
RECURSIVE rsiLosses(_, _)
rsiLosses(validPrices, i) ==
    IF i = 0 THEN Num(0)
    ELSE IF Less(Num(0), rsiChange(validPrices, i))
         THEN rsiLosses(validPrices, i - 1)
         ELSE Add(rsiLosses(validPrices, i - 1), MathAbs(rsiChange(validPrices, i)))
\* the result counts in hundredths: Math.round(rsi * 100) / 100
RsiScale == 100
\* Math.round(x) for x = n / d >= 0: the nearest integer, halves upwards
MathRound(n, d) == (2 * n + d) \div (2 * d)
\* 100 - 100 / (1 + gains / losses) = 100 * gains / (gains + losses)
calculateRSI(priceList, period) ==
    IF Len(priceList) < period + 1 THEN Null
    ELSE LET validPrices == SelectSeq(priceList, validPrice)
         IN IF Len(validPrices) < period + 1 THEN Null
            ELSE LET gains == rsiGains(validPrices, period).v
                     losses == rsiLosses(validPrices, period).v
                 IN IF losses = 0 THEN Num(100 * RsiScale)
                    ELSE Num(MathRound(100 * RsiScale * gains, gains + losses))

CalculateRSI ==
    \E priceList \in RsiInputs, period \in RsiPeriods :
        /\ rsiPrices' = priceList
        /\ rsiPeriod' = period
        /\ rsiResult' = calculateRSI(priceList, period)
        /\ UNCHANGED <<sentimentPrices, sentimentResult>>
        /\ UNCHANGED <<cbVars, alertVars, tradeVars, fetchVars, dashVars, histVars, exportVars,
                       loadVars, pageVars>>

\* getMarketSentiment looks at the 5 newest points of the history
MaxPoints == 5          \* longest history handed to getMarketSentiment
recentCount == 5
defaultPeriod == 14     \* calculateRSI(prices, period = 14)
SentimentPrices == {Null, Num(100), Num(110)}
SentimentInputs == SeqsUpTo(SentimentPrices, MaxPoints)

\* trend = (first - last) / last, compared with a number of percent
trendAbove(first, last, percent) ==
    IF last > 0 THEN (first - last) * 100 > percent * last
    ELSE (first - last) * 100 < percent * last
trendBelow(first, last, percent) ==
    IF last > 0 THEN (first - last) * 100 < percent * last
    ELSE (first - last) * 100 > percent * last

\* getMarketSentiment, the sentiment and rsi of its result (priceList holds
\* the prices of the history, newest first)
getMarketSentiment(priceList) ==
    IF Len(priceList) < recentCount THEN [sentiment |-> "Neutral", rsi |-> Undefined]
    ELSE LET recentPrices == SelectSeq(slice(priceList, recentCount), validPrice)
             rsi == calculateRSI(recentPrices, defaultPeriod)
             first == recentPrices[1].v
             last == recentPrices[Len(recentPrices)].v
         IN IF Len(recentPrices) < 3 THEN [sentiment |-> "Neutral", rsi |-> Undefined]
            ELSE [sentiment |->
                     IF Less(Num(70 * RsiScale), rsi) THEN "Overbought"
                     ELSE IF Less(rsi, Num(30 * RsiScale)) THEN "Oversold"
                     ELSE IF trendAbove(first, last, 5) THEN "Bullish"
                     ELSE IF trendBelow(first, last, -5) THEN "Bearish"
                     ELSE "Neutral",
                  rsi |-> rsi]

GetMarketSentiment ==
    \E priceList \in SentimentInputs :
        /\ sentimentPrices' = priceList
        /\ sentimentResult' = getMarketSentiment(priceList)
        /\ UNCHANGED <<rsiPrices, rsiPeriod, rsiResult>>
        /\ UNCHANGED <<cbVars, alertVars, tradeVars, fetchVars, dashVars, histVars, exportVars,
                       loadVars, pageVars>>

NextSentiment == GetMarketSentiment

AnalyticsStart ==
    /\ rsiPrices = <<>>
    /\ rsiPeriod = 2
    /\ rsiResult = Null
    /\ sentimentPrices = <<>>
    /\ sentimentResult = [sentiment |-> "Neutral", rsi |-> Undefined]

NextAnalytics == CalculateRSI

-----------------------------------------------------------------------------
(* Start-up: what the constructors read from localStorage                  *)
(* src/unnamed/part_000 (UniversalTracker), src/unnamed/part_002           *)

StorageKeys ==
    {"priceHistory_default", "appSettings", "priceAlerts", "alertSettings",
     "lastAssetPrices", "userSelectedAssets", "tradingPortfolio", "tradingOrders"}

\* One read of a key. guarded: the read is inside try/catch, or inside the
\* async init whose rejection does not reach the constructor; the value is
\* then the default one.
read(key, guarded) == [key |-> key, guarded |-> guarded]

\* new UniversalAPI(): JSON.parse(localStorage.getItem(...)) || default
UniversalAPIReads == <<read("lastAssetPrices", FALSE), read("userSelectedAssets", FALSE)>>
\* new AlertSystem(): JSON.parse(... || '[]'), then init() -> loadSettings()
AlertSystemReads == <<read("priceAlerts", FALSE), read("alertSettings", TRUE)>>
\* storage.loadHistory() and storage.loadSettings(): try ... catch
DataStorageReads == <<read("priceHistory_default", TRUE), read("appSettings", TRUE)>>
\* new UniversalTracker()
UniversalTrackerReads == UniversalAPIReads \o AlertSystemReads \o DataStorageReads
\* new TradingPlatform(): new UniversalAPI(), loadPortfolio(), loadOrders()
TradingPlatformReads ==
    UniversalAPIReads \o <<read("tradingPortfolio", FALSE), read("tradingOrders", FALSE)>>

\* JSON.parse throws a SyntaxError on a text that does not parse
throws(key) == storedText[key] = "corrupt"
valueOf(key) == IF storedText[key] = "saved" THEN "saved" ELSE "default"

\* The reads of a constructor in order, up to the first one that throws
\* outside of a try/catch.
RECURSIVE construct(_, _, _)
construct(reads, i, held) ==
    IF i > Len(reads) THEN [loaded |-> held, failed |-> FALSE]
    ELSE IF throws(reads[i].key) /\ ~reads[i].guarded
         THEN [loaded |-> held, failed |-> TRUE]
         ELSE construct(reads, i + 1, [held EXCEPT ![reads[i].key] = valueOf(reads[i].key)])

nothingLoaded == [k \in StorageKeys |-> "notLoaded"]

\* new UniversalTracker() at DOMContentLoaded of the dashboard
NewUniversalTracker ==
    /\ page = "closed"
    /\ page' = "dashboard"
    /\ loaded' = construct(UniversalTrackerReads, 1, nothingLoaded).loaded
    /\ startUpFailed' = construct(UniversalTrackerReads, 1, nothingLoaded).failed
    /\ UNCHANGED storedText
    /\ UNCHANGED <<cbVars, alertVars, tradeVars, fetchVars, dashVars, histVars, exportVars,
                   analyticsVars, pageVars>>

\* new TradingPlatform() at DOMContentLoaded of the trading page
NewTradingPlatform ==
    /\ page = "closed"
    /\ page' = "trading"
    /\ loaded' = construct(TradingPlatformReads, 1, nothingLoaded).loaded
    /\ startUpFailed' = construct(TradingPlatformReads, 1, nothingLoaded).failed
    /\ UNCHANGED storedText
    /\ UNCHANGED <<cbVars, alertVars, tradeVars, fetchVars, dashVars, histVars, exportVars,
                   analyticsVars, pageVars>>

\* Before the page is loaded a key is written, removed or damaged.
StorageChanges ==
    \E key \in StorageKeys, text \in {"absent", "saved", "corrupt"} :
        /\ page = "closed"
        /\ storedText[key] # text
        /\ storedText' = [storedText EXCEPT ![key] = text]
        /\ UNCHANGED <<page, loaded, startUpFailed>>
        /\ UNCHANGED <<cbVars, alertVars, tradeVars, fetchVars, dashVars, histVars, exportVars,
                       analyticsVars, pageVars>>

LoadStart ==
    /\ storedText = [k \in StorageKeys |-> "absent"]
    /\ page = "closed"
    /\ loaded = nothingLoaded
    /\ startUpFailed = FALSE

NextLoad == NewUniversalTracker \/ NewTradingPlatform \/ StorageChanges

----------------------------------------------------------------------------
(* UniversalTracker: the polling timer                                     *)

MaxTimers == 5          \* setInterval calls explored
MaxFetches == 8         \* fetchAllPrices calls explored

\* constructor: refreshInterval = null, isVisible = true; init() has armed the 100 ms timeout
TimerStart ==
    /\ documentHidden = FALSE
    /\ isVisible = TRUE
    /\ startUp = "pending"
    /\ refreshInterval = 0
    /\ activeTimers = {}
    /\ timersSet = 0
    /\ fetchesStarted = 0

\* clearInterval(id): an id that is not set is ignored
clearInterval(timers, id) == timers \ {id}

\* startAutoRefresh(): clears the interval it holds, then sets a new one
startAutoRefresh ==
    /\ timersSet < MaxTimers
    /\ timersSet' = timersSet + 1
    /\ refreshInterval' = timersSet + 1
    /\ activeTimers' = (IF refreshInterval # 0 THEN clearInterval(activeTimers, refreshInterval)
                        ELSE activeTimers) \cup {timersSet + 1}

\* a call of fetchAllPrices(), as far as the timer is concerned
fetchStarted ==
    /\ fetchesStarted < MaxFetches
    /\ fetchesStarted' = fetchesStarted + 1

\* the 100 ms timeout of init(): fetchAllPrices(); startAutoRefresh(); ...
StartUpTimeout ==
    /\ startUp = "pending"
    /\ startUp' = "done"
    /\ fetchStarted
    /\ startAutoRefresh
    /\ UNCHANGED <<documentHidden, isVisible>>
    /\ UNCHANGED <<notPage, queueVars, overlapVars>>

\* the visibilitychange listener of setupVisibilityAPI()
VisibilityChange ==
    /\ documentHidden' = ~documentHidden
    /\ isVisible' = ~documentHidden'
    /\ IF isVisible'
       THEN fetchStarted /\ startAutoRefresh
       ELSE /\ activeTimers' = (IF refreshInterval # 0
                                 THEN clearInterval(activeTimers, refreshInterval)
                                 ELSE activeTimers)
            /\ UNCHANGED <<refreshInterval, timersSet, fetchesStarted>>
    /\ UNCHANGED startUp
    /\ UNCHANGED <<notPage, queueVars, overlapVars>>

\* the callback of the polling interval (the browser is online)
PollTick ==
    /\ activeTimers # {}
    /\ fetchStarted
    /\ UNCHANGED <<documentHidden, isVisible, startUp, refreshInterval, activeTimers, timersSet>>
    /\ UNCHANGED <<notPage, queueVars, overlapVars>>

\* a manual refresh: the space key calls fetchAllPrices()
ManualRefresh ==
    /\ fetchStarted
    /\ UNCHANGED <<documentHidden, isVisible, startUp, refreshInterval, activeTimers, timersSet>>
    /\ UNCHANGED <<notPage, queueVars, overlapVars>>

NextTimer == StartUpTimeout \/ VisibilityChange \/ PollTick \/ ManualRefresh

----------------------------------------------------------------------------
(* UniversalAPI: the request queue                                         *)

MaxRequests == 6        \* requests handed to queueRequest

\* what a request function does when it is called
RequestOutcomes == {"value", "error"}

\* constructor: requestQueue = [], isProcessingQueue = false
QueueStart ==
    /\ requestQueue = <<>>
    /\ isProcessingQueue = FALSE
    /\ submitted = <<>>
    /\ settlement = <<>>
    /\ called = <<>>

\* this.rateLimitDelay as processQueue finds it: the constructor assigns the
\* number 1000 to the instance, and an own property hides the method of the
\* same name on the prototype
rateLimitDelay == [type |-> "number", value |-> 1000]

\* the body of the try block of processQueue for the entry id:
\* await this.rateLimitDelay(); const result = await requestFn(); resolve(result)
\* and the catch block: reject(error).  Calling what is not a function throws
\* a TypeError before anything is awaited.
tryRequest(id, requests) ==
    IF rateLimitDelay.type # "function"
    THEN [called |-> FALSE, settled |-> "rejected: TypeError"]
    ELSE [called |-> TRUE,
          settled |-> IF requests[id] = "value" THEN "resolved: value" ELSE "rejected: error"]

\* the while loop of processQueue: shifts the entries off the queue one by one
RECURSIVE processLoop(_, _, _, _)
processLoop(queue, requests, settled, calls) ==
    IF queue = <<>>
    THEN [queue |-> queue, settled |-> settled, calls |-> calls]
    ELSE LET id == Head(queue)
             t == tryRequest(id, requests)
         IN processLoop(Tail(queue), requests,
                        [settled EXCEPT ![id] = t.settled],
                        IF t.called THEN Append(calls, id) ELSE calls)

\* processQueue()
processQueue(queue, requests, settled, calls) ==
    IF isProcessingQueue \/ queue = <<>>
    THEN [queue |-> queue, settled |-> settled, calls |-> calls]
    ELSE processLoop(queue, requests, settled, calls)

\* queueRequest(requestFn): pushes the entry and calls processQueue()
queueRequest(outcome) ==
    LET id == Len(submitted) + 1
        p == processQueue(Append(requestQueue, id), Append(submitted, outcome),
                          Append(settlement, "pending"), called)
    IN /\ submitted' = Append(submitted, outcome)
       /\ requestQueue' = p.queue
       /\ settlement' = p.settled
       /\ called' = p.calls
       /\ UNCHANGED isProcessingQueue

QueueRequest ==
    \E outcome \in RequestOutcomes :
        /\ Len(submitted) < MaxRequests
        /\ queueRequest(outcome)
        /\ UNCHANGED <<notPage, timerVars, overlapVars>>

NextQueue == QueueRequest

----------------------------------------------------------------------------
(* UniversalTracker: fetch cycles that overlap                             *)

MaxCycles == 3          \* calls of fetchAllPrices in a run

\* who calls fetchAllPrices: the polling interval, the space key, the
\* visibilitychange listener, the backgroundPriceUpdate listener
Starters == {"timer", "manual", "visibility", "background"}

\* what api.fetchAllPrices() settles with: the prices of the moment, or an error
CycleResults == {"prices 100", "prices 110", "error"}

OverlapStart ==
    /\ cycles = <<>>
    /\ leftPrices = [prices |-> "none", cycle |-> 0]
    /\ completions = <<>>

\* fetchAllPrices() up to `await this.api.fetchAllPrices()`: nothing holds a
\* cycle back while another one is awaiting
fetchAllPricesStarts(starter) ==
    /\ Len(cycles) < MaxCycles
    /\ cycles' = Append(cycles, [starter |-> starter, pc |-> "awaiting"])
    /\ UNCHANGED <<leftPrices, completions>>

\* fetchAllPrices() after the await: this.allPrices = the result, or in the
\* catch block the cached api.lastPrices
fetchAllPricesResumes(c, result) ==
    /\ cycles[c].pc = "awaiting"
    /\ cycles' = [cycles EXCEPT ![c].pc = "completed"]
    /\ leftPrices' = [prices |-> IF result = "error" THEN "cached" ELSE result, cycle |-> c]
    /\ completions' = Append(completions, c)

StartCycle ==
    \E starter \in Starters :
        fetchAllPricesStarts(starter) /\ UNCHANGED <<notPage, timerVars, queueVars>>

CompleteCycle ==
    \E c \in 1..Len(cycles), result \in CycleResults :
        fetchAllPricesResumes(c, result) /\ UNCHANGED <<notPage, timerVars, queueVars>>

NextOverlap == StartCycle \/ CompleteCycle

----------------------------------------------------------------------------
(* Specifications                                                          *)

Init ==
    /\ BreakerStart /\ AlertStart /\ TradeStart /\ FetchStart /\ DashStart
    /\ HistoryStart /\ ExportStart /\ AnalyticsStart
    /\ LoadStart /\ TimerStart /\ QueueStart /\ OverlapStart

SpecBreaker == Init /\ [][NextBreaker]_vars
SpecAlerts == Init /\ [][NextAlerts]_vars
SpecTrade == Init /\ [][NextTrade]_vars
SpecFetch == Init /\ [][NextFetch]_vars
SpecDash == Init /\ [][NextDash]_vars
SpecHistory == Init /\ [][NextHistory]_vars
SpecExport == Init /\ [][NextExport]_vars
SpecExportTrade == Init /\ [][NextExportTrade]_vars
SpecAnalytics == Init /\ [][NextAnalytics]_vars
SpecLoad == Init /\ [][NextLoad]_vars
SpecCycleAlerts == Init /\ [][NextCycleAlerts]_vars
SpecOverlap == Init /\ [][NextOverlap]_vars
SpecImport == Init /\ [][NextImport]_vars
SpecQueue == Init /\ [][NextQueue]_vars
SpecTimer == Init /\ [][NextTimer]_vars
SpecSentiment == Init /\ [][NextSentiment]_vars
SpecAlertLog == Init /\ [][NextAlertLog]_vars

Next == NextBreaker \/ NextAlerts \/ NextTrade \/ NextFetch \/ NextDash \/ NextHistory \/ NextExport
    \/ NextExportTrade \/ NextAnalytics \/ NextLoad \/ NextCycleAlerts \/ NextAlertLog \/ NextSentiment \/ NextTimer \/ NextQueue \/ NextImport \/ NextOverlap
Spec == Init /\ [][Next]_vars

----------------------------------------------------------------------------
(* Claims about the trading ledger                                         *)

IsTrade == tradeCalls' # tradeCalls
\* the request executeTrade reads: asset, quantity q and current price p
TradeQty == parseFloat(tradeAmount)
TradePrice == priceOf(currentAsset)
ValidRequest == currentAsset # NoAsset /\ TradeQty.k = "num" /\ TradeQty.v > 0
\* q*p*(1 + 0.001) and q*p*(1 - 0.001), in money units
BuyCost == Mul(Mul(TradeQty, TradePrice), Num(feeDivisor + 1))
SellProceeds == Mul(Mul(TradeQty, TradePrice), Num(feeDivisor - 1))
OneOrderAdded ==
    /\ Len(orders') = Len(orders) + 1
    /\ \A i \in 1..Len(orders) : orders'[i + 1] = orders[i]
OtherHoldingsKept ==
    \A a \in (DOMAIN portfolio.holdings \cup DOMAIN portfolio'.holdings) \ {currentAsset} :
        /\ a \in DOMAIN portfolio.holdings /\ a \in DOMAIN portfolio'.holdings
        /\ portfolio'.holdings[a] = portfolio.holdings[a]
LedgerKept ==
    /\ portfolio'.cash = portfolio.cash /\ portfolio'.holdings = portfolio.holdings
    /\ orders' = orders
NothingPersisted == storedPortfolio' = storedPortfolio /\ storedOrders' = storedOrders

\* C4: a buy of q at the current price p is accepted exactly when
\* cash >= q*p*1.001; an accepted buy takes exactly q*p*1.001 off the cash,
\* adds exactly q to the holding of the asset, changes no other holding and
\* adds exactly one order.
C4_BuyContract ==
    [][(IsTrade /\ currentAction = "buy" /\ ValidRequest) =>
        IF LessEq(BuyCost, portfolio.cash)
        THEN /\ IsFinite(portfolio.cash) /\ IsFinite(portfolio'.cash) /\ IsFinite(BuyCost)
             /\ portfolio.cash.v - portfolio'.cash.v = BuyCost.v
             /\ currentAsset \in DOMAIN portfolio'.holdings
             /\ portfolio'.holdings[currentAsset]
                    = holdingOf(portfolio.holdings, currentAsset) + TradeQty.v
             /\ OtherHoldingsKept
             /\ OneOrderAdded
        ELSE LedgerKept]_vars

\* C5: a sell of q at the current price p is accepted exactly when the
\* holding of the asset is >= q; an accepted sell adds exactly q*p*0.999 to
\* the cash, takes q off the holding, removes the key when the holding
\* reaches zero and adds exactly one order.
C5_SellContract ==
    [][(IsTrade /\ currentAction = "sell" /\ ValidRequest) =>
        IF holdingOf(portfolio.holdings, currentAsset) >= TradeQty.v
        THEN /\ IsFinite(portfolio.cash) /\ IsFinite(portfolio'.cash) /\ IsFinite(SellProceeds)
             /\ portfolio'.cash.v - portfolio.cash.v = SellProceeds.v
             /\ holdingOf(portfolio'.holdings, currentAsset)
                    = holdingOf(portfolio.holdings, currentAsset) - TradeQty.v
             /\ (currentAsset \in DOMAIN portfolio'.holdings
                    <=> holdingOf(portfolio.holdings, currentAsset) # TradeQty.v)
             /\ OtherHoldingsKept
             /\ OneOrderAdded
        ELSE LedgerKept]_vars

\* C30: after any sequence of executeTrade calls portfolio.cash is a number
\* >= 0.
C30_CashNonNegative ==
    /\ portfolio.cash.k = "num" /\ portfolio.cash.v >= 0
    /\ storedPortfolio # <<>> =>
           (storedPortfolio[1].cash.k = "num" /\ storedPortfolio[1].cash.v >= 0)

\* what holds: the cash is never a negative number
C30_CashNeverNegative ==
    portfolio.cash.k = "num" => portfolio.cash.v >= 0

HoldingsNonNegative ==
    /\ \A a \in DOMAIN portfolio.holdings : portfolio.holdings[a] >= 0
    /\ storedPortfolio # <<>> =>
           \A a \in DOMAIN storedPortfolio[1].holdings : storedPortfolio[1].holdings[a] >= 0
\* C6: every holding is >= 0 after any sequence of trades; a sell of more
\* than the holding of the asset, or of an asset that is not held, is
\* rejected.
C6_HoldingsNonNegative ==
    [][/\ HoldingsNonNegative /\ HoldingsNonNegative'
       /\ (IsTrade /\ currentAction = "sell" /\ ValidRequest
             /\ holdingOf(portfolio.holdings, currentAsset) < TradeQty.v)
          => (LedgerKept /\ notification' = "Insufficient holdings")]_vars
\* an accepted buy of 1, then a sell of 2 of the same asset turned down
C6_Witness ==
    /\ notification = "Insufficient holdings"
    /\ currentAsset = "btc" /\ tradeAmount = "2"
    /\ "btc" \in DOMAIN portfolio.holdings /\ portfolio.holdings["btc"] = 1

TradeErrors ==
    {"Please select an asset and enter amount", "Insufficient funds", "Insufficient holdings"}
\* C7: a rejected trade (no asset, amount missing, not a number or <= 0,
\* insufficient funds, insufficient holdings) leaves cash, holdings and the
\* order log as they were and persists nothing; only accepted trades add an
\* order, and each adds exactly one.
C7_RejectedTradeChangesNothing ==
    /\ [][IsTrade =>
            \/ /\ notification' \in TradeErrors
               /\ LedgerKept /\ portfolio' = portfolio /\ NothingPersisted
            \/ /\ notification' \in {"Bought", "Sold"}
               /\ OneOrderAdded
               /\ storedOrders' = <<saveOrders(orders')>>]_vars
    /\ [][(IsTrade /\ ~ValidRequest) => notification' \in TradeErrors]_vars
    /\ [][(IsTrade /\ ValidRequest /\ currentAction = "buy" /\ IsFinite(portfolio.cash)
             /\ Less(portfolio.cash, BuyCost)) => notification' = "Insufficient funds"]_vars
    /\ [][Len(orders') # Len(orders) => (IsTrade /\ notification' \in {"Bought", "Sold"})]_vars
\* a buy turned down for lack of funds after an accepted one, nothing lost
C7_Witness ==
    /\ notification = "Insufficient funds"
    /\ Len(orders) = 1 /\ orders[1].action = "buy"
    /\ storedOrders = <<saveOrders(orders)>>
    /\ portfolio.cash = Num((initialCash - 5000) * feeDivisor - 5000)

----------------------------------------------------------------------------
(* Claims about the price fetch cycle                                      *)

\* the prior known price of an asset, or else its catalog fallback price
PriorPrice(asset) == Or(lookup(lastPrices, asset), lookup(fallbackPrices, asset))
HasPrior(asset) == Truthy(PriorPrice(asset))
\* a fetchPrice of the cycle settles in this step
Settles == cycleIndex' = cycleIndex + 1
\* missing, non-numeric, zero or negative regularMarketPrice
InvalidQuote(quote) == quote.k \in {"undef", "str"} \/ (quote.k = "num" /\ quote.v <= 0)
InvalidUpstream == lastFetch'.how = "ok" /\ InvalidQuote(lastFetch'.quote)
FailedFetch ==
    \/ lastFetch'.how \in {"network_error", "http_error", "timeout", "ok_bad_body",
                           "breaker_open", "unsupported"}
    \/ InvalidUpstream
ValidPrice(value) == value.k \in {"num", "inf"} /\ Less(Num(0), value)

\* C8: fetchAllPrices returns an entry for every selected asset even when the
\* fetch of some assets fails (network error, non-2xx, timeout, breaker open,
\* unsupported symbol, invalid upstream price); a failed asset gets its prior
\* known price, or else its catalog fallback price.
C8_EveryAssetGetsAnEntry ==
    [][/\ (fetchPc' = "idle" /\ returned' # returned)
            => DOMAIN returned' = SeqToSet(cycleAssets')
       /\ Settles =>
            /\ cycleAsset \in DOMAIN cyclePrices'
            /\ (cycleIndex < Len(cycleAssets)) => fetchPc' = "fetching"
            /\ (FailedFetch /\ HasPrior(cycleAsset))
                    => cyclePrices'[cycleAsset] = PriorPrice(cycleAsset)]_vars

\* C9: for a selected asset with a prior known price the returned mapping
\* never holds NaN or a value <= 0, whatever the upstream response is
\* (missing, zero, negative or non-numeric regularMarketPrice, the inverted
\* pairs included): the last known price is substituted.
C9_InvalidQuoteSubstituted ==
    [][/\ \A a \in DOMAIN returned' : HasPrior(a) => ValidPrice(returned'[a])
       /\ (Settles /\ HasPrior(cycleAsset)) =>
            /\ ValidPrice(cyclePrices'[cycleAsset])
            /\ InvalidUpstream => cyclePrices'[cycleAsset] = PriorPrice(cycleAsset)]_vars

----------------------------------------------------------------------------
(* Claims about the dashboard's snapshot                                   *)

SelectedKeys == SeqToSet(userSelectedAssets)

\* C10: in every state of the dashboard the keys of the price snapshot are
\* among the selected assets, and the selected assets are among the keys of
\* the catalog.
C10_SnapshotWithinSelection ==
    /\ DOMAIN snapshot \subseteq SelectedKeys
    /\ SelectedKeys \subseteq DOMAIN assets

----------------------------------------------------------------------------
(* Claims about the price history                                          *)

\* a step in which saveToHistory appends a point
Appends == historyClock' = historyClock + 1
StoredAfter(asset) == loadHistoryFrom(historyStore', asset)

\* C11: right after a point is appended, loading the asset's history returns
\* that point at index 0; once more than the cap have been appended, loading
\* returns exactly the cap most recently appended points, newest first.
C11_NewestFirstAndCapped ==
    /\ [][Appends =>
            /\ StoredAfter(trackerAsset) # <<>>
            /\ StoredAfter(trackerAsset)[1] = appendedLog'[trackerAsset][1]]_vars
    /\ [](\A a \in HistoryAssets :
            Len(appendedLog[a]) > MaxHistory
                => loadHistory(a) = slice(appendedLog[a], MaxHistory))

\* C12: loadHistory after saveHistory returns records equal field by field
\* to the saved ones: decompress(compress(x)) = x.
C12_HistoryRoundTrip ==
    [][Appends => StoredAfter(trackerAsset) = priceHistory']_vars

StoredBefore(asset) == loadHistoryFrom(historyStore, asset)

\* C22: appending a point after a fetch cycle keeps the points persisted
\* earlier for the asset, but for the oldest ones beyond the cap, also after a
\* reload; it leaves the other assets' histories alone and stores no point
\* of another asset.
C22_HistoryAppendOnly ==
    [][Appends =>
        /\ StoredAfter(trackerAsset) # <<>>
        /\ Tail(StoredAfter(trackerAsset)) = slice(StoredBefore(trackerAsset), MaxHistory - 1)
        /\ \A b \in HistoryAssets \ {trackerAsset} : StoredAfter(b) = StoredBefore(b)
        /\ \A i \in 1..Len(StoredAfter(trackerAsset)) :
                StoredAfter(trackerAsset)[i].asset = trackerAsset]_vars

\* a step that ends a fetch cycle of the dashboard
EndsCycle == historyClock' = historyClock + 1 \/ (allPrices' # allPrices /\ DOMAIN allPrices' # {})
ChangesAfter(asset) == calculateChangeFrom(historyStore', allPrices', asset)

\* C15: after a fetch cycle the percent change computed for every selected
\* asset is (new price - price of the previous cycle) / price of the previous
\* cycle * 100, the same each time it is computed.
C15_ChangeSincePreviousCycle ==
    [][(EndsCycle /\ ~allPricesIsLastPrices') =>
            \A a \in SelectedKeys \cap DOMAIN allPrices' :
                Truthy(lookup(snapshot, a))
                => \A c \in ChangesAfter(a) :
                        c = percentOf(Sub(allPrices'[a], snapshot[a]), snapshot[a])]_vars

----------------------------------------------------------------------------
(* Claims about export and import                                          *)

\* C13: importing the exported document restores an alert list and a
\* selected-asset list equal to the exported ones.
C13_AlertsAndSelectionRestored ==
    [][(restores' = restores + 1) =>
            /\ alerts' = exportedState[1].alerts
            /\ userSelectedAssets' = exportedState[1].userAssets]_vars

\* C26: when the file given to importData is malformed, the import is
\* rejected with an error message and the alert list, the alert history, the
\* selected assets and the price history are left unchanged.
C26_MalformedImportRejected ==
    [][(malformedImports' = malformedImports + 1) =>
            /\ importNotice' = "Failed to import data"
            /\ UNCHANGED <<alerts, storedAlerts, alertHistory, storedAlertHistory>>
            /\ UNCHANGED <<userSelectedAssets, storedSelection>>
            /\ UNCHANGED historyStore]_vars

\* what holds of every malformed file: the alerts and the stored histories stay
C26_MalformedKeepsAlertsAndHistory ==
    [][(malformedImports' = malformedImports + 1) =>
            /\ UNCHANGED <<alerts, storedAlerts, alertHistory, storedAlertHistory>>
            /\ UNCHANGED historyStore]_vars

\* C14: importing the exported document restores a portfolio (cash and
\* holdings) equal to the exported one.
C14_PortfolioRestored ==
    [][(restores' = restores + 1) =>
            /\ portfolio'.cash = exportedState[1].portfolio.cash
            /\ portfolio'.holdings = exportedState[1].portfolio.holdings]_vars

-----------------------------------------------------------------------------
(* Claims about the analytics                                              *)

\* the list handed to calculateRSI holds at least period + 1 prices, all valid
EnoughValidPrices ==
    /\ Len(rsiPrices) >= rsiPeriod + 1
    /\ \A i \in 1..Len(rsiPrices) : validPrice(rsiPrices[i])
\* the list is newest first: the price rose (fell) at each of the period
\* transitions, taken from the older price to the newer one
RoseThroughout == \A i \in 1..rsiPeriod : Less(rsiPrices[i + 1], rsiPrices[i])
FellThroughout == \A i \in 1..rsiPeriod : Less(rsiPrices[i], rsiPrices[i + 1])

\* C16: on at least period + 1 valid prices given newest first, calculateRSI
\* returns 100 when the price rose at every one of the period transitions
\* from oldest to newest, and 0 when it fell at every one of them.
C16_RsiOfMonotonePrices ==
    EnoughValidPrices =>
        /\ RoseThroughout => rsiResult = Num(100 * RsiScale)
        /\ FellThroughout => rsiResult = Num(0)

\* the valid ones of the 5 newest prices, and the trend over them
SentimentRecent == SelectSeq(slice(sentimentPrices, recentCount), validPrice)
TrendDefined == Len(sentimentPrices) >= recentCount /\ Len(SentimentRecent) >= 3
\* the RSI computed for them is a number (it is null for lack of points)
SentimentRsi == calculateRSI(SentimentRecent, defaultPeriod)
RsiAbove(n) == SentimentRsi.k = "num" /\ SentimentRsi.v > n * RsiScale
RsiBelow(n) == SentimentRsi.k = "num" /\ SentimentRsi.v < n * RsiScale
SentimentFirst == SentimentRecent[1].v
SentimentLast == SentimentRecent[Len(SentimentRecent)].v

\* C23: the sentiment is Overbought only when the computed RSI is above 70 and
\* Oversold only when it is below 30; when neither holds, also when the RSI
\* is not available, it is Bullish on a trend above +5 %, Bearish on one
\* below -5 %, Neutral otherwise.
C23_SentimentClasses ==
    /\ sentimentResult.sentiment = "Overbought" => RsiAbove(70)
    /\ sentimentResult.sentiment = "Oversold" => RsiBelow(30)
    /\ (TrendDefined /\ ~RsiAbove(70) /\ ~RsiBelow(30))
        => sentimentResult.sentiment =
                IF trendAbove(SentimentFirst, SentimentLast, 5) THEN "Bullish"
                ELSE IF trendBelow(SentimentFirst, SentimentLast, -5) THEN "Bearish"
                ELSE "Neutral"

-----------------------------------------------------------------------------
(* Claims about start-up                                                   *)

\* the keys the open page reads
ReadsOf(name) ==
    IF name = "dashboard" THEN {UniversalTrackerReads[i].key : i \in DOMAIN UniversalTrackerReads}
    ELSE IF name = "trading" THEN {TradingPlatformReads[i].key : i \in DOMAIN TradingPlatformReads}
    ELSE {}

\* C17: when a persisted text does not parse, the page that reads it holds
\* the default value for it, and the construction of the page's object (the
\* start-up) does not fail.
C17_CorruptLoadsAsDefault ==
    \A key \in ReadsOf(page) :
        storedText[key] = "corrupt" => (loaded[key] = "default" /\ ~startUpFailed)

----------------------------------------------------------------------------
(* Claims about the alert rules                                            *)

\* A step that is a checkAlerts pass.
IsPass == passes' = passes + 1
\* A step with the effect of resetTriggeredAlerts.
IsReset ==
    /\ passes' = passes
    /\ alerts' = [i \in 1..Len(alerts) |->
                    [alerts[i] EXCEPT !.triggered = FALSE, !.triggeredPrice = Undefined]]

\* C3: an active, untriggered rule triggers in the first checkAlerts pass in
\* which its condition holds (on a present price), and a triggered rule
\* triggers in no later pass, whatever the prices and whatever toggleAlert
\* does in between: a rule stays triggered until resetTriggeredAlerts.
C3_TriggersOnce ==
    /\ [][IsPass =>
            \A i \in 1..Len(alerts) :
                (alerts[i].active /\ ~alerts[i].triggered /\ alerts[i].id \in lastPass'.held)
                => /\ alerts'[i].triggered
                   /\ alerts'[i].id = alerts[i].id
                   /\ fires'[alerts[i].id] = fires[alerts[i].id] + 1
                   /\ alerts[i].id \in lastPass'.returned]_vars
    /\ [][\A i \in 1..Len(alerts) :
            fires'[alerts[i].id] # fires[alerts[i].id]
            => /\ IsPass
               /\ alerts[i].active /\ ~alerts[i].triggered
               /\ alerts[i].id \in lastPass'.held]_vars
    /\ [][\A i \in 1..Len(alerts) :
            alerts[i].triggered
            => /\ fires'[alerts[i].id] = fires[alerts[i].id]
               /\ alerts[i].id \notin lastPass'.returned
               /\ (\A j \in 1..Len(alerts') :
                      (alerts'[j].id = alerts[i].id /\ ~alerts'[j].triggered) => IsReset)]_vars

\* C3 witness: a rule that triggered in the first pass is still active and
\* triggered after a second pass in which its condition held again, and that
\* pass did not return it.
C3_Witness ==
    \E i \in 1..Len(alerts) :
        /\ alerts[i].type = "above"
        /\ alerts[i].active /\ alerts[i].triggered
        /\ passes = 2
        /\ fires[alerts[i].id] = 1
        /\ alerts[i].id \in lastPass.held
        /\ alerts[i].id \notin lastPass.returned

\* A dashboard fetch cycle: the price of the previous cycle and of this one.
IsCycle == historyClock' = historyClock + 1
cyclePrevious(asset) == lookup(allPrices, asset)
cycleCurrent(asset) == lookup(allPrices', asset)
\* the rule was active and untriggered before the cycle, and both cycles
\* priced its asset
PercentRuleInCycle(i, type) ==
    /\ alertEligible(alerts[i])
    /\ alerts[i].type = type
    /\ Truthy(cyclePrevious(alerts[i].asset))
    /\ Truthy(cycleCurrent(alerts[i].asset))

\* C20: in a dashboard fetch cycle an active untriggered change_up rule with
\* threshold T triggers exactly when (current - previous) / previous * 100
\* >= T, and a change_down rule exactly when (previous - current) / previous
\* * 100 >= T, previous being the price of the previous cycle.
C20_PercentRulesInCycle ==
    [][IsCycle =>
        \A i \in 1..Len(alerts) :
            LET cur == cycleCurrent(alerts[i].asset)
                prev == cyclePrevious(alerts[i].asset)
            IN /\ PercentRuleInCycle(i, "change_up")
                    => (alerts'[i].triggered
                            <=> percentAtLeast(Sub(cur, prev), prev, alerts[i].value))
               /\ PercentRuleInCycle(i, "change_down")
                    => (alerts'[i].triggered
                            <=> percentAtLeast(Sub(prev, cur), prev, alerts[i].value))]_vars

----------------------------------------------------------------------------
(* Claims about the circuit breaker                                        *)

\* A step that is a call of fetchWithTimeout (issued or rejected).
IsCall == issued' + rejected' = issued + rejected + 1
\* A step in which the response of the probe request arrives.
ProbeResponds == probe # 0 /\ probe' = 0

\* C1: from CLOSED with failure count 0, once 5 (threshold) failed calls
\* (network error, non-2xx, timeout) have completed in a row with no 2xx
\* response in between, the breaker is OPEN; and a call made less than 30 s
\* (timeout) after the last failure is rejected and issues no request.
C1_OpensAfterThreshold ==
    /\ [][(consecFailures' # consecFailures /\ consecFailures' >= threshold)
            => circuitBreaker'.state = "OPEN"]_vars
    /\ [][(/\ consecFailures >= threshold
           /\ now - circuitBreaker.lastFailure < timeout
           /\ IsCall)
            => (/\ rejected' = rejected + 1
                /\ issued' = issued
                /\ inflight' = inflight
                /\ circuitBreaker' = circuitBreaker)]_vars

\* C1 witness: five failures in a row opened the breaker and a call within
\* the window was rejected.
C1_Witness ==
    /\ consecFailures = threshold
    /\ circuitBreaker.state = "OPEN"
    /\ rejected = 1
    /\ issued = threshold
    /\ now - circuitBreaker.lastFailure < timeout

\* C2: when the breaker is OPEN and more than 30 s have passed since the
\* last failure, the next call moves it to HALF_OPEN and issues the request;
\* if that request succeeds the breaker is CLOSED with failure count 0, and
\* if it fails the breaker is OPEN again.
C2_ProbeDecides ==
    /\ [][(/\ circuitBreaker.state = "OPEN"
           /\ now - circuitBreaker.lastFailure > timeout
           /\ IsCall)
            => (circuitBreaker'.state = "HALF_OPEN" /\ issued' = issued + 1)]_vars
    /\ [][(ProbeResponds /\ lastOutcome'.outcome = "ok")
            => (circuitBreaker'.state = "CLOSED" /\ circuitBreaker'.failures = 0)]_vars
    /\ [][(ProbeResponds /\ lastOutcome'.outcome \in ListedFailures)
            => circuitBreaker'.state = "OPEN"]_vars

\* the request that moved the breaker to HALF_OPEN awaits its response
ProbeInFlight ==
    /\ circuitBreaker.state = "HALF_OPEN"
    /\ probe # 0
    /\ inflight[probe] # "none"

\* C18: while the breaker is HALF_OPEN and its probe request is in flight, a
\* further call of fetchWithTimeout issues no request.
C18_OneProbeOnly ==
    [][(ProbeInFlight /\ IsCall) => issued' = issued]_vars

\* C19: quote requests and news requests share one breaker: the failure
\* count of the breaker is at least the number of calls of either kind that
\* failed in a row, 5 (threshold) such failures of any mix open it, and a
\* quote request made within 30 s (timeout) of the last failure is rejected.
C19_OneBreakerForAllRequests ==
    /\ [][(consecFailures' # consecFailures /\ consecFailures' > 0)
            => circuitBreaker'.failures >= consecFailures']_vars
    /\ [][(consecFailures' # consecFailures /\ consecFailures' >= threshold)
            => circuitBreaker'.state = "OPEN"]_vars
    /\ [][(/\ consecFailures >= threshold
           /\ now - circuitBreaker.lastFailure < timeout
           /\ CallQuote)
            => (rejected' = rejected + 1 /\ issued' = issued)]_vars

\* C19 witness: five news requests failed in a row, no quote request among
\* them, and the quote request that followed within the window was rejected.
C19_Witness ==
    /\ failedKinds = {"news"}
    /\ consecFailures = threshold
    /\ circuitBreaker.state = "OPEN"
    /\ circuitBreaker.failures = threshold
    /\ issued = threshold
    /\ rejected = 1
    /\ now - circuitBreaker.lastFailure < timeout

\* C27: in every reachable state of the breaker, whatever the order in which
\* the outcomes of overlapping requests arrive: CLOSED implies failures <
\* threshold, and OPEN or HALF_OPEN implies failures >= threshold.
C27_StateAgreesWithFailures ==
    /\ circuitBreaker.state = "CLOSED" => circuitBreaker.failures < threshold
    /\ circuitBreaker.state \in {"OPEN", "HALF_OPEN"} => circuitBreaker.failures >= threshold

\* C27 witness: while the probe was in flight an overlapping request
\* succeeded and closed the breaker, then the probe failed: CLOSED with one
\* failure counted.
C27_Witness ==
    /\ lastOutcome.wasProbe
    /\ lastOutcome.outcome \in ListedFailures
    /\ circuitBreaker.state = "CLOSED"
    /\ circuitBreaker.failures = 1

\* A step that is a call let through after the window, and one that is rejected.
IsRejectedCall == IsCall /\ rejected' = rejected + 1
WindowOver ==
    /\ circuitBreaker.state = "OPEN"
    /\ now - circuitBreaker.lastFailure >= timeout

\* C28: a call rejected because the breaker is OPEN leaves failures,
\* lastFailure and state unchanged, and the first call made once 30 s
\* (timeout) have passed since the last failure is let through, however many
\* calls were rejected before it.
C28_RejectedCallsLeaveBreaker ==
    /\ [][IsRejectedCall => circuitBreaker' = circuitBreaker]_vars
    /\ [][(WindowOver /\ IsCall)
            => (issued' = issued + 1 /\ rejected' = rejected)]_vars
    /\ [][(IsCall /\ rejected > 0 /\ consecFailures >= threshold
           /\ now - circuitBreaker.lastFailure >= timeout)
            => issued' = issued + 1]_vars

\* C28 witness: the breaker opened, a call was rejected during the
\* window, and the call made 30 s after the last failure was let through.
C28_Witness ==
    /\ rejected >= 1
    /\ issued = threshold + 1
    /\ circuitBreaker.state = "HALF_OPEN"
    /\ circuitBreaker.lastFailure # NoTime
    /\ now - circuitBreaker.lastFailure >= timeout

-----------------------------------------------------------------------------
(* Claims about the alert history log                                      *)

\* q with its d oldest entries dropped
DropOldest(q, d) == SubSeq(q, d + 1, Len(q))
IsPrefixOf(p, q) == Len(p) <= Len(q) /\ SubSeq(q, 1, Len(p)) = p
\* the log after the step holds the log before it, less the oldest entries
\* the cap pushed out, followed by what the step appended
LogKeptUpToCap ==
    \E d \in 0..Len(storedAlertHistory) :
        /\ IsPrefixOf(DropOldest(storedAlertHistory, d), storedAlertHistory')
        /\ d > 0 => Len(storedAlertHistory') = alertHistoryCap

\* C21: the persisted alert-history log never holds more than 100 entries,
\* every alert a pass triggers is in it after the pass, and an entry
\* persisted earlier leaves it only by the cap, over passes and restarts.
C21_AlertLogAppendOnly ==
    /\ [][Len(storedAlertHistory') <= alertHistoryCap]_vars
    /\ [][IsPass => lastPass'.returned \subseteq SeqToSet(storedAlertHistory')]_vars
    /\ [][LogKeptUpToCap]_vars


----------------------------------------------------------------------------
(* Claims about the polling timer                                          *)

\* C24: whenever the tab is hidden no price-polling timer of the dashboard is
\* active, and whenever it is visible after start-up has completed exactly
\* one is active.
C24_TimerFollowsVisibility ==
    /\ documentHidden => activeTimers = {}
    /\ (~documentHidden /\ startUp = "done") => Cardinality(activeTimers) = 1

\* the tab was hidden during the 100 ms delay and the timeout set a timer
C24_Counterexample == documentHidden /\ startUp = "done" /\ activeTimers # {}

\* what holds instead: never two timers, and exactly one when the tab is
\* visible after start-up
C24_AtMostOneTimer ==
    /\ Cardinality(activeTimers) <= 1
    /\ (~documentHidden /\ startUp = "done") => Cardinality(activeTimers) = 1


----------------------------------------------------------------------------
(* Claims about the request queue                                          *)

\* C25: the requests handed to queueRequest are called one at a time in the
\* order they were submitted, and the promise of each settles with the result
\* of its own request: resolved with its value when the request succeeds,
\* rejected with its error when it fails.
C25_QueueSettlesWithOwnResult ==
    /\ \A i \in 1..Len(called) : called[i] = i
    /\ \A id \in 1..Len(submitted) :
        settlement[id] # "pending" =>
            /\ id \in SeqToSet(called)
            /\ settlement[id] = IF submitted[id] = "value" THEN "resolved: value"
                                ELSE "rejected: error"

\* what the code does: every promise is rejected with the TypeError and no
\* request function is ever called
C25_EveryRequestRejected ==
    /\ called = <<>>
    /\ requestQueue = <<>>
    /\ \A id \in 1..Len(submitted) : settlement[id] = "rejected: TypeError"


----------------------------------------------------------------------------
(* Claims about overlapping fetch cycles                                   *)

\* every cycle that started has completed, and there were at least two
AllCyclesCompleted ==
    /\ Len(cycles) >= 2
    /\ \A c \in 1..Len(cycles) : cycles[c].pc = "completed"

\* C29: when fetch cycles overlap, the snapshot left once all of them have
\* completed is the result of the cycle that started last.
C29_LastStartedCycleWins ==
    AllCyclesCompleted => leftPrices.cycle = Len(cycles)

\* what the code does: the snapshot is the result of the cycle that completed last
C29_LastCompletedCycleWins ==
    completions # <<>> => leftPrices.cycle = completions[Len(completions)]

====
